---- MODULE Spec2Model ----
(***************************************************************************)
(* A model of the application container lifecycle manager of               *)
(* cloudway/platform: the broker's user operations (CreateUser,            *)
(* RemoveUser), the container engine's Create, and the stdcopy stream      *)
(* codec (stdWriter.Write, Copy).                                          *)
(*                                                                         *)
(* Every operation is one action that models the whole handler.  What an   *)
(* external call does (succeed or fail) is an input of the action, drawn   *)
(* with \E; the outcome of the operation is recorded in the variable       *)
(* `last` (the calls it made in order, the error it returned, the state    *)
(* before it), which the properties read.                                  *)
(***************************************************************************)
EXTENDS Integers, Sequences, FiniteSets, TLC

VARIABLES
    userdb,         \* broker.Users: user name -> namespace, or Absent
    scmNamespaces,  \* the namespaces (projects) that exist in the SCM
    containers,     \* the live containers of the container engine
    wire,           \* the bytes the stdWriters wrote to the shared sink w
    wlog,           \* one entry per stdWriter.Write call, in call order
    last,           \* the last operation: its inputs, its calls and its outcome
    ex,             \* the run of Container.Exec / pumpStreams in progress
    cg,             \* the cgroup files and directories, the Cgroup operations
    pl,             \* the container plugin: the OS user and its last operation
    api             \* the application handlers of the API server

vars == <<userdb, scmNamespaces, containers, wire, wlog, last, ex, cg, pl,
         api>>

brokerVars == <<userdb, scmNamespaces>>
codecVars  == <<wire, wlog>>
\* the state of the container node: command execution, control groups
nodeVars   == <<ex, cg>>
\* the container plugin and the API server
appVars    == <<pl, api>>

(***************************************************************************)
(* Bounds of the model.                                                    *)
(***************************************************************************)
\* the largest Scaling value a Create request carries
MaxScaling == 3
\* the largest Scaling value of the creates issued while the broker is checked
MaxBrokerScaling == 2

\* sequence helpers
Min(a, b) == IF a < b THEN a ELSE b

RECURSIVE SetToSeq(_)
SetToSeq(S) ==
    IF S = {} THEN <<>>
    ELSE LET x == CHOOSE y \in S : TRUE IN <<x>> \o SetToSeq(S \ {x})

(***************************************************************************)
(* THE CONTAINER ENGINE: Create and Destroy.                               *)
(*                                                                         *)
(* The engine's Create is exercised by the create-container test suite;    *)
(* its implementation is modelled from the specification's scaling rules.  *)
(* A container is one replica of one identity                              *)
(* (Name, Namespace, ServiceName, plugin tag); the replica number stands   *)
(* for the engine's opaque container id.  Engine transport failures during *)
(* Create are not modelled.                                                *)
(***************************************************************************)
NsNames      == {"n1", "n2"}
ServiceNames == {"", "db1", "db2"}
NilPlugin    == "<nil>"

CreateOptions(name, ns, plugin, service, scaling) ==
    [Name |-> name, Namespace |-> ns, Plugin |-> plugin,
     ServiceName |-> service, Scaling |-> scaling]

\* the replicas that exist for the identity of the options
GroupOf_ignoringService(cs, o) ==
    {c \in cs : /\ c.name = o.Name
                /\ c.ns = o.Namespace
                /\ c.plugin = o.Plugin}
GroupOf(cs, o) ==
    {c \in cs : /\ c.name = o.Name
                /\ c.ns = o.Namespace
                /\ c.plugin = o.Plugin
                /\ c.service = o.ServiceName}

\* the k least replica numbers that the set `used` does not hold
RECURSIVE FreeReplicas(_, _)
FreeReplicas(used, k) ==
    IF k <= 0 THEN {}
    ELSE LET n == CHOOSE i \in 1..(Cardinality(used) + 1) :
                      /\ i \notin used
                      /\ \A j \in 1..(i - 1) : j \in used
         IN {n} \cup FreeReplicas(used \cup {n}, k - 1)

\* a scale request is refused unless it asks for more replicas than exist
ScalingRefused_lt(scaling, existing) == scaling < existing
ScalingRefused(scaling, existing) == scaling <= existing

\* the number of containers a Create adds
ScaleBy_absolute(scaling, existing) == scaling
ScaleBy(scaling, existing) == scaling - existing

\* an application is named and lives in a namespace
MissingIdentity_nameOnly(o) == o.Name = ""
MissingIdentity(o) == o.Name = "" \/ o.Namespace = ""

\* the containers of a successful Create: `k` more replicas of the identity
NewReplicas(group, o, k) ==
    {[name |-> o.Name, ns |-> o.Namespace, plugin |-> o.Plugin,
      service |-> o.ServiceName, replica |-> n] :
     n \in FreeReplicas({c.replica : c \in group}, k)}

\* Create(ctx, opts): [err, new, panic]
EngineCreateResult_scalingUnchecked(cs, o) ==
    LET group == GroupOf(cs, o)
        K     == Cardinality(group)
        fail(e) == [panic |-> FALSE, err |-> e, new |-> {}]
    IN  IF o.Plugin = NilPlugin
        THEN [panic |-> TRUE, err |-> "panic", new |-> {}]
        ELSE IF MissingIdentity(o)
        THEN fail("invalid name or namespace")
        ELSE IF K > 0 /\ ScalingRefused(o.Scaling, K)
        THEN fail("maximum scaling reached")
        ELSE [panic |-> FALSE, err |-> "nil",
              new |-> NewReplicas(group, o, ScaleBy(o.Scaling, K))]
EngineCreateResult(cs, o) ==
    LET group == GroupOf(cs, o)
        K     == Cardinality(group)
        fail(e) == [panic |-> FALSE, err |-> e, new |-> {}]
    IN  IF o.Plugin = NilPlugin
        THEN [panic |-> TRUE, err |-> "panic", new |-> {}]
        ELSE IF MissingIdentity(o)
        THEN fail("invalid name or namespace")
        ELSE IF o.Scaling <= 0
        THEN fail("invalid scaling")
        ELSE IF ScalingRefused(o.Scaling, K)
        THEN fail("maximum scaling reached")
        ELSE [panic |-> FALSE, err |-> "nil",
              new |-> NewReplicas(group, o, ScaleBy(o.Scaling, K))]

\* Container.Destroy(ctx): removes the container unless the engine fails
DestroyResult(cs, c, ok) == IF ok THEN cs \ {c} ELSE cs

\* the requests the engine is checked with: the framework plugin mock with
\* every scaling value from -1 up, the service plugin mockdb unnamed and under
\* two names (a service is created with Scaling 1), and one request per kind
\* of invalid option
EngineOpts ==
    {CreateOptions("test", ns, "mock", "", s) : ns \in NsNames, s \in (-1)..MaxScaling}
    \cup {CreateOptions("test", ns, "mockdb", sv, s) :
            ns \in {"n1"}, sv \in ServiceNames, s \in 0..1}
    \cup {CreateOptions("", "n1", "mock", "", 1),
          CreateOptions("test", "", "mock", "", 1),
          CreateOptions("test", "n1", NilPlugin, "", 1)}

NoOp == [op |-> "none"]

EngineCreate(o) ==
    LET r == EngineCreateResult(containers, o)
    IN  /\ containers' = containers \cup r.new
        /\ last' = [op |-> "Create", opts |-> o, err |-> r.err, panic |-> r.panic,
                      new |-> r.new, pre |-> containers]

EngineDestroy(c, ok) ==
    /\ c \in containers
    /\ containers' = DestroyResult(containers, c, ok)
    /\ last' = [op |-> "Destroy", target |-> c, err |-> IF ok THEN "nil" ELSE "engine",
                  pre |-> containers]

(***************************************************************************)
(* THE BROKER: CreateUser and RemoveUser.                                  *)
(*                                                                         *)
(* The user database, the SCM, the plugin hub and the engine are external  *)
(* collaborators: each call either succeeds or fails, and which calls fail *)
(* is the input of the operation: `faults`, the names of the calls that    *)
(* fail, and `broken`, the containers whose Destroy fails.  A failed call  *)
(* leaves the collaborator's state as it was.                              *)
(***************************************************************************)
UserNames   == {"alice", "bob"}
NoNamespace == ""
Absent      == "<absent>"

\* one call of a collaborator: its name, its string argument (a user name or a
\* namespace) or the container it is made on, and whether it succeeded
NoTarget == [name |-> "", ns |-> "", plugin |-> "", service |-> "", replica |-> 0]
Call(name, arg, ok) == [call |-> name, arg |-> arg, target |-> NoTarget, ok |-> ok]
DestroyCall(c, ok) == [call |-> "Destroy", arg |-> c.ns, target |-> c, ok |-> ok]

\* errors.Errors: Add ignores a nil error, Err() is nil for an empty collection
ErrorsAdd(errs, call) == IF call.ok THEN errs ELSE Append(errs, call)

\* line 20: the SCM is involved only for a user that has a namespace
HasNamespace_always(ns) == TRUE
HasNamespace(ns) == ns # NoNamespace

\* line 23: br.Users.Remove(basic.Name), its result ignored
RollbackUser_skipped(db, name, ok) == db
RollbackUser(db, name, ok) == IF ok THEN [db EXCEPT ![name] = Absent] ELSE db

\* lines 15-17: a failed Users.Create ends CreateUser
RecordRefused_ignored(createOk) == FALSE
RecordRefused(createOk) == ~createOk

\* Broker.CreateUser(user, password): [db, scm, calls, err]
CreateUserResult(db, scm, name, ns, faults) ==
    LET createOk == db[name] = Absent /\ "Users.Create" \notin faults
        scmOk    == ns \notin scm /\ "SCM.CreateNamespace" \notin faults
        removeOk == "Users.Remove" \notin faults
        create   == Call("Users.Create", name, createOk)
        scmCall  == Call("SCM.CreateNamespace", ns, scmOk)
        remove   == Call("Users.Remove", name, removeOk)
        db1      == [db EXCEPT ![name] = ns]
    IN  IF RecordRefused(createOk)
        THEN [db |-> db, scm |-> scm, calls |-> <<create>>, err |-> <<create>>]
        ELSE IF HasNamespace(ns)
        THEN IF ~scmOk
             THEN [db |-> RollbackUser(db1, name, removeOk), scm |-> scm,
                   calls |-> <<create, scmCall, remove>>, err |-> <<scmCall>>]
             ELSE [db |-> db1, scm |-> scm \cup {ns},
                   calls |-> <<create, scmCall>>, err |-> <<>>]
        ELSE [db |-> db1, scm |-> scm, calls |-> <<create>>, err |-> <<>>]

\* br.FindInNamespace(ctx, namespace): the containers of the namespace
FindInNamespace(cs, ns) == {c \in cs : c.ns = ns}

\* lines 48-50: destroy the containers in turn, collecting every failure
RECURSIVE DestroyAll(_, _, _)
DestroyAll(acc, found, broken) ==
    IF found = <<>> THEN acc
    ELSE LET c    == Head(found)
             ok   == c \notin broken
             call == DestroyCall(c, ok)
         IN DestroyAll([cs    |-> DestroyResult(acc.cs, c, ok),
                        calls |-> Append(acc.calls, call),
                        errs  |-> ErrorsAdd(acc.errs, call)],
                       Tail(found), broken)

\* lines 42-51: the containers of the namespace
RemoveContainers_stopAtFailure(cs, ns, faults, broken) ==
    LET findOk == "FindInNamespace" \notin faults
        find   == Call("FindInNamespace", ns, findOk)
        found  == SetToSeq(FindInNamespace(cs, ns))
        first  == IF found # <<>> /\ Head(found) \in broken THEN <<Head(found)>> ELSE found
    IN  IF ~findOk
        THEN [cs |-> cs, calls |-> <<find>>, errs |-> <<find>>]
        ELSE DestroyAll([cs |-> cs, calls |-> <<find>>, errs |-> <<>>], first, broken)
RemoveContainers(cs, ns, faults, broken) ==
    LET findOk == "FindInNamespace" \notin faults
        find   == Call("FindInNamespace", ns, findOk)
        found  == SetToSeq(FindInNamespace(cs, ns))
    IN  IF ~findOk
        THEN [cs |-> cs, calls |-> <<find>>, errs |-> <<find>>]
        ELSE DestroyAll([cs |-> cs, calls |-> <<find>>, errs |-> <<>>], found, broken)

\* line 61: errors.Add(br.Users.Remove(user.Name))
RemoveRecord_unlessFailed(db, name, errs, faults) ==
    LET ok   == "Users.Remove" \notin faults
        call == Call("Users.Remove", name, ok)
    IN  IF errs # <<>>
        THEN [db |-> db, calls |-> <<>>, errs |-> errs]
        ELSE [db    |-> IF ok THEN [db EXCEPT ![name] = Absent] ELSE db,
              calls |-> <<call>>,
              errs  |-> ErrorsAdd(errs, call)]
RemoveRecord(db, name, errs, faults) ==
    LET ok   == "Users.Remove" \notin faults
        call == Call("Users.Remove", name, ok)
    IN  [db    |-> IF ok THEN [db EXCEPT ![name] = Absent] ELSE db,
         calls |-> <<call>>,
         errs  |-> ErrorsAdd(errs, call)]

\* lines 42-58: the containers first, then the SCM, then the plugin hub
NamespaceCalls_scmFirst(containerCalls, scmCall, hubCall) ==
    <<scmCall>> \o containerCalls \o <<hubCall>>
NamespaceCalls(containerCalls, scmCall, hubCall) ==
    containerCalls \o <<scmCall, hubCall>>

\* Broker.RemoveUser(username): [db, scm, cs, calls, err]
RemoveUserResult(db, scm, cs, name, faults, broken) ==
    LET findOk == db[name] # Absent /\ "Users.Find" \notin faults
        find   == Call("Users.Find", name, findOk)
        ns     == db[name]
        conts  == RemoveContainers(cs, ns, faults, broken)
        scmOk  == ns \in scm /\ "SCM.RemoveNamespace" \notin faults
        scmCall == Call("SCM.RemoveNamespace", ns, scmOk)
        hubCall == Call("Hub.RemoveNamespace", ns, "Hub.RemoveNamespace" \notin faults)
        \* lines 42-58
        inNs   == IF HasNamespace(ns)
                  THEN [cs    |-> conts.cs,
                        scm   |-> IF scmOk THEN scm \ {ns} ELSE scm,
                        calls |-> NamespaceCalls(conts.calls, scmCall, hubCall),
                        errs  |-> ErrorsAdd(conts.errs, scmCall)]
                  ELSE [cs |-> cs, scm |-> scm, calls |-> <<>>, errs |-> <<>>]
        rec    == RemoveRecord(db, name, inNs.errs, faults)
    IN  IF ~findOk
        THEN [db |-> db, scm |-> scm, cs |-> cs, calls |-> <<find>>, err |-> <<find>>]
        ELSE [db |-> rec.db, scm |-> inNs.scm, cs |-> inNs.cs,
              calls |-> <<find>> \o inNs.calls \o rec.calls, err |-> rec.errs]

\* the sets of calls that an input makes fail (when Users.Create or
\* Users.Find fails no other call is made)
CreateUserFaults ==
    SUBSET {"SCM.CreateNamespace", "Users.Remove"} \cup {{"Users.Create"}}
RemoveUserFaults ==
    SUBSET {"FindInNamespace", "SCM.RemoveNamespace", "Hub.RemoveNamespace",
            "Users.Remove"}
    \cup {{"Users.Find"}}

CreateUser(name, ns, faults) ==
    LET r == CreateUserResult(userdb, scmNamespaces, name, ns, faults)
    IN  /\ userdb' = r.db
        /\ scmNamespaces' = r.scm
        /\ last' = [op |-> "CreateUser", user |-> name, ns |-> ns,
                      calls |-> r.calls, err |-> r.err,
                      preScm |-> scmNamespaces, owned |-> {}]
        /\ UNCHANGED containers

RemoveUser(name, faults, broken) ==
    LET r == RemoveUserResult(userdb, scmNamespaces, containers, name, faults, broken)
    IN  /\ userdb' = r.db
        /\ scmNamespaces' = r.scm
        /\ containers' = r.cs
        /\ last' = [op |-> "RemoveUser", user |-> name, ns |-> userdb[name],
                      calls |-> r.calls, err |-> r.err,
                      preScm |-> scmNamespaces,
                      owned |-> FindInNamespace(containers, userdb[name])]

\* the creates issued for the applications of the users of the database: an
\* application that is scaled in one namespace, a single container in the other
BrokerCreateOpts ==
    {CreateOptions("test", "n1", "mock", "", s) : s \in 1..MaxBrokerScaling}
    \cup {CreateOptions("test", "n2", "mock", "", 1)}

(***************************************************************************)
(* THE STREAM CODEC: stdWriter.Write and Copy.                             *)
(*                                                                         *)
(* A byte is a number in 0..255, a stream a sequence of bytes.  The source *)
(* of Copy is a reader over a byte sequence: each Read returns at most     *)
(* `chunk` bytes and at most what the buffer can take, and reports EOF     *)
(* either together with the last bytes or by a read of its own.            *)
(***************************************************************************)
Stdin  == 0
Stdout == 1
Stderr == 2
Data   == 3

stdWriterPrefixLen == 8
stdWriterFdIndex   == 0
stdWriterSizeIndex == 4

\* the payload a frame may carry without the buffer being extended, less one:
\* 32*1024 in the source, scaled down
BufBase == 1
startingBufLen == BufBase + stdWriterPrefixLen + 1

\* the number of Write calls of a run
MaxWrites == 2

\* a nil slice, as opposed to an empty one
NilPayload == <<-1>>

\* binary.BigEndian.PutUint32 and binary.BigEndian.Uint32
PutUint32_littleEndian(v) ==
    <<v % 256, (v \div 256) % 256, (v \div 65536) % 256, (v \div 16777216) % 256>>
PutUint32(v) ==
    <<(v \div 16777216) % 256, (v \div 65536) % 256, (v \div 256) % 256, v % 256>>
Uint32(b) == b[1] * 16777216 + b[2] * 65536 + b[3] * 256 + b[4]

\* lines 63-64: the header of a frame, header[stdWriterFdIndex] = prefix and
\* the length at header[stdWriterSizeIndex:] (uint32(len(p)) is len(p): the
\* payloads of the model are shorter than 2^32)
Header(prefix, p) ==
    [i \in 1..stdWriterPrefixLen |->
        IF i = stdWriterFdIndex + 1 THEN prefix
        ELSE IF i \in (stdWriterSizeIndex + 1)..(stdWriterSizeIndex + 4)
        THEN PutUint32(Len(p))[i - stdWriterSizeIndex]
        ELSE 0]

\* lines 65-68: header and payload go to one buffer, written at once
SinkWrites_separate(header, p) == <<header, p>>
SinkWrites(header, p) == <<header \o p>>

\* stdWriter.Write(p) on a writer with the given prefix: the chunks it writes
\* to the underlying writer (which takes all of each), and what it returns
WriteResult(instantiated, prefix, p) ==
    IF ~instantiated
    THEN [chunks |-> <<>>, n |-> 0, err |-> "Writer not instantiated"]
    ELSE IF p = NilPayload
    THEN [chunks |-> <<>>, n |-> 0, err |-> "nil"]
    ELSE LET buf == Header(prefix, p) \o p
             n   == Len(buf) - stdWriterPrefixLen
         IN [chunks |-> SinkWrites(Header(prefix, p), p),
             n |-> IF n < 0 THEN 0 ELSE n, err |-> "nil"]

RECURSIVE Concat(_)
Concat(chunks) == IF chunks = <<>> THEN <<>> ELSE Head(chunks) \o Concat(Tail(chunks))

\* a source that never fails
NoReadError == -1

\* src.Read(buf[nr:]) at offset pos of the source, with room for `room`
\* bytes.  A source that fails gives the errAt bytes before the failure, and
\* then an error that is not io.EOF
Read(src, pos, room) ==
    LET fails     == src.errAt # NoReadError
        remaining == (IF fails THEN Min(src.errAt, Len(src.bytes))
                      ELSE Len(src.bytes)) - pos
        n         == Min(Min(src.chunk, room), remaining)
    IN  IF fails /\ remaining = 0
        THEN [n |-> 0, eof |-> FALSE, err |-> TRUE]
        ELSE [n   |-> n,
              eof |-> remaining = 0 \/ (n = remaining /\ src.eofWithData /\ ~fails),
              err |-> FALSE]

\* lines 127-133 and 175-181: what Copy returns when the source ends inside
\* a header or inside a frame
EofResult_error(written) == [written |-> 0, err |-> "unexpected EOF"]
EofResult(written) == [written |-> written, err |-> "nil"]

\* lines 123-138 and 171-186: read until the buffer holds `need` bytes
RECURSIVE ReadLoop(_, _, _, _, _)
ReadLoop(src, buf, pos, bufLen, need) ==
    IF Len(buf) >= need
    THEN [buf |-> buf, pos |-> pos, eof |-> FALSE, err |-> FALSE]
    ELSE LET r    == Read(src, pos, bufLen - Len(buf))
             buf2 == buf \o SubSeq(src.bytes, pos + 1, pos + r.n)
         IN  IF r.eof
             THEN [buf |-> buf2, pos |-> pos + r.n, eof |-> Len(buf2) < need,
                   err |-> FALSE]
             ELSE IF r.err
             THEN [buf |-> buf2, pos |-> pos + r.n, eof |-> FALSE, err |-> TRUE]
             ELSE ReadLoop(src, buf2, pos + r.n, bufLen, need)

\* lines 141-156: the destination of a frame, by the first byte of its header
OutFor_stdinRejected(tag) ==
    IF tag = Stdout THEN "dstout"
    ELSE IF tag = Stderr THEN "dsterr"
    ELSE IF tag = Data THEN "data"
    ELSE "unrecognized"
OutFor(tag) ==
    IF tag = Stdin \/ tag = Stdout THEN "dstout"
    ELSE IF tag = Stderr THEN "dsterr"
    ELSE IF tag = Data THEN "data"
    ELSE "unrecognized"

\* lines 164-168: the length of the buffer once it can take the frame
ExtendedLen(bufLen, frameSize) ==
    IF frameSize + stdWriterPrefixLen > bufLen
    THEN bufLen + (frameSize + stdWriterPrefixLen - bufLen + 1)
    ELSE bufLen

\* lines 205-208: the bytes read beyond the frame move to the front
Remainder_dropped(buf, frameSize) == <<>>
Remainder(buf, frameSize) == SubSeq(buf, frameSize + stdWriterPrefixLen + 1, Len(buf))

\* line 189: buf[stdWriterPrefixLen : frameSize+stdWriterPrefixLen]
FramePayload_allRead(buf, frameSize) ==
    SubSeq(buf, stdWriterPrefixLen + 1, Len(buf))
FramePayload(buf, frameSize) ==
    SubSeq(buf, stdWriterPrefixLen + 1, frameSize + stdWriterPrefixLen)

\* what Copy returns on an error: lines 136, 155, 184, 193, 198
ErrorResult_counting(written, err) == [written |-> written, err |-> err]
ErrorResult(written, err) == [written |-> 0, err |-> err]

\* out.Write(payload): the number of bytes the destination takes (nw) and
\* whether it reports an error (ew).  A "writer" takes everything, a
\* "failing" one takes nothing and reports an error, a "short" one takes
\* all but the last byte and reports nothing
SinkWrite(kind, payload) ==
    IF kind = "failing" THEN [nw |-> 0, ew |-> TRUE]
    ELSE IF kind = "short" /\ payload # <<>>
    THEN [nw |-> Len(payload) - 1, ew |-> FALSE]
    ELSE [nw |-> Len(payload), ew |-> FALSE]

\* lines 196-199: if nw != frameSize
ShortWrite_ignored(nw, frameSize) == FALSE
ShortWrite(nw, frameSize) == nw # frameSize

\* lines 188-203: the frame goes to its destination, unless that is nil
Deliver(st, dst, out, payload) ==
    IF dst[out] = "nil"
    THEN st
    ELSE LET w  == SinkWrite(dst[out], payload)
             st1 == [st EXCEPT
                       !.sinks[out] = @ \o SubSeq(payload, 1, w.nw),
                       !.dispatched = Append(@, [sink |-> out,
                                                 payload |-> payload])]
         IN  IF w.ew
             THEN [st1 EXCEPT !.ret = ErrorResult(st.written, "sink error")]
             ELSE IF ShortWrite(w.nw, Len(payload))
             THEN [st1 EXCEPT !.ret = ErrorResult(st.written, "short write")]
             ELSE st1

\* lines 121-209: the loop of Copy, one frame per round
RECURSIVE CopyLoop(_, _, _)
CopyLoop(dst, src, st) ==
    LET h == ReadLoop(src, st.buf, st.pos, st.bufLen, stdWriterPrefixLen)
    IN  IF h.eof
        THEN [st EXCEPT !.ret = EofResult(st.written)]
        ELSE IF h.err
        THEN [st EXCEPT !.ret = ErrorResult(st.written, "read error")]
        ELSE
        LET out == OutFor(h.buf[stdWriterFdIndex + 1])
        IN  IF out = "unrecognized"
            THEN [st EXCEPT !.ret = ErrorResult(st.written,
                                                "unrecognized input header")]
            ELSE
            LET frameSize == Uint32(SubSeq(h.buf, stdWriterSizeIndex + 1,
                                           stdWriterSizeIndex + 4))
                bufLen    == ExtendedLen(st.bufLen, frameSize)
                f == ReadLoop(src, h.buf, h.pos, bufLen, frameSize + stdWriterPrefixLen)
            IN  IF f.eof
                THEN [st EXCEPT !.ret = EofResult(st.written), !.bufLen = bufLen]
                ELSE IF f.err
                THEN [st EXCEPT !.ret = ErrorResult(st.written, "read error"),
                                !.bufLen = bufLen]
                ELSE
                LET payload == FramePayload(f.buf, frameSize)
                    st2 == Deliver(st, dst, out, payload)
                IN  IF st2.ret.err # "nil"
                    THEN [st2 EXCEPT !.bufLen = bufLen]
                    ELSE CopyLoop(dst, src,
                             [st2 EXCEPT !.buf = Remainder(f.buf, frameSize),
                                         !.bufLen = bufLen,
                                         !.pos = f.pos,
                                         !.written = @ + frameSize])

\* Copy(dstout, dsterr, data, src): what it returns (ret), what each
\* destination received (sinks) and the writes made on them, in order
CopyResult(dst, src) ==
    CopyLoop(dst, src,
             [buf |-> <<>>, bufLen |-> startingBufLen, pos |-> 0, written |-> 0,
              sinks |-> [dstout |-> <<>>, dsterr |-> <<>>, data |-> <<>>],
              dispatched |-> <<>>,
              ret |-> [written |-> 0, err |-> "nil"]])

\* the payloads written: nil, empty, one byte, one that exactly fits the
\* starting buffer, one that does not, and one longer than the buffer itself
PayloadLens == {0, 1, BufBase + 1, BufBase + 2, startingBufLen + 1}
Payload(n) == [i \in 1..n |-> i % 256]
Payloads == {NilPayload} \cup {Payload(n) : n \in PayloadLens}

\* the stream types a writer is made with: the four of the source, and one
\* value that is none of them
WriterTypes == {Stdin, Stdout, Stderr, Data, 4}

\* the Write calls made: every type with a payload that fits the starting
\* buffer and with one that does not, every payload on Stdout, and one call
\* on a writer that was made without an underlying writer
WriteInputs ==
    {[instantiated |-> TRUE, t |-> t, p |-> p] :
        t \in WriterTypes, p \in {Payload(1), Payload(startingBufLen + 1)}}
    \cup {[instantiated |-> TRUE, t |-> Stdout, p |-> p] : p \in Payloads}
    \cup {[instantiated |-> FALSE, t |-> Stdout, p |-> Payload(1)]}

\* the destinations Copy is given: all three, or no data stream
DstConfigs ==
    {[dstout |-> "writer", dsterr |-> "writer", data |-> "writer"],
     [dstout |-> "writer", dsterr |-> "writer", data |-> "nil"]}

\* the chunk sizes of the source: a byte at a time, a few bytes, all there is
ReadChunks(n) == {1, 3, n + 1}

\* NewWriter(w, t).Write(p), w being the shared sink `wire`
Write(instantiated, t, p) ==
    LET r == WriteResult(instantiated, t, p)
    IN  /\ Len(wlog) < MaxWrites
        /\ wire' = wire \o Concat(r.chunks)
        /\ wlog' = Append(wlog, [instantiated |-> instantiated, prefix |-> t, p |-> p,
                                 chunks |-> r.chunks])
        /\ last' = [op |-> "Write", prefix |-> t, p |-> p, instantiated |-> instantiated,
                    chunks |-> r.chunks, n |-> r.n, err |-> r.err]

\* the bytes of the last Write call
LastChunkLen == IF wlog = <<>> THEN 0 ELSE Len(Concat(wlog[Len(wlog)].chunks))

\* the destinations of a Copy of which one does not take what it is given
FaultyDstConfigs ==
    {[dstout |-> "writer", dsterr |-> "failing", data |-> "writer"],
     [dstout |-> "writer", dsterr |-> "short", data |-> "nil"],
     [dstout |-> "short", dsterr |-> "writer", data |-> "failing"]}

\* Copy over the first `cut` bytes of what the writers wrote, from a source
\* that fails after errAt bytes (NoReadError: never)
CopyFrom(dst, cut, chunk, eofWithData, errAt) ==
    LET src == [bytes |-> SubSeq(wire, 1, cut), chunk |-> chunk,
                eofWithData |-> eofWithData, errAt |-> errAt]
        r   == CopyResult(dst, src)
    IN  /\ last' = [op |-> "Copy", dst |-> dst, cut |-> cut, chunk |-> chunk,
                    eofWithData |-> eofWithData, errAt |-> errAt,
                    written |-> r.ret.written, err |-> r.ret.err,
                    sinks |-> r.sinks, dispatched |-> r.dispatched,
                    bufLen |-> r.bufLen]
        /\ UNCHANGED <<wire, wlog>>

\* Copy from a source that does not fail
Copy(dst, cut, chunk, eofWithData) ==
    CopyFrom(dst, cut, chunk, eofWithData, NoReadError)

(***************************************************************************)
(* COMMAND EXECUTION: Container.Exec, ExecE, Subst and pumpStreams         *)
(* (src/container/container_exec.go).                                      *)
(*                                                                         *)
(* One run at a time is followed, in the record `ex`.  The caller's        *)
(* goroutine goes from the connection set-up to the select of pumpStreams, *)
(* to the inspection and to the return; the two goroutines of pumpStreams  *)
(* (the output drain and the stdin drain) and the cancellation of the      *)
(* context take their steps in any order in between.  Exec passes          *)
(* context.Background(), which is never cancelled; a direct call of        *)
(* pumpStreams may pass a context that is cancelled at any time.  Of the   *)
(* remote output only the stderr text is followed.                         *)
(***************************************************************************)
\* the length of the stderr text of the remote command
MaxStderr == 3

CR == "CR"
LF == "LF"
StderrChars == {"e", CR, LF}

\* error values: nil, StatusError{Code, Message}, any other error
NilErr == [kind |-> "nil", what |-> "", Code |-> 0, Message |-> <<>>]
PlainErr(what) == [kind |-> "error", what |-> what, Code |-> 0, Message |-> <<>>]
StatusError(code, message) ==
    [kind |-> "StatusError", what |-> "", Code |-> code, Message |-> message]

\* chomp: strings.TrimRight(b.String(), "\r\n")
Chomp_oneNewline(s) ==
    IF s # <<>> /\ s[Len(s)] = LF THEN SubSeq(s, 1, Len(s) - 1) ELSE s
RECURSIVE Chomp(_)
Chomp(s) ==
    IF s # <<>> /\ s[Len(s)] \in {CR, LF}
    THEN Chomp(SubSeq(s, 1, Len(s) - 1))
    ELSE s

\* ExecE, Subst: a StatusError without a message gets the captured stderr
WrapStatus(err, errbuf) ==
    IF err.kind = "StatusError" /\ err.Message = <<>>
    THEN StatusError(err.Code, Chomp(errbuf))
    ELSE err

ExecCallers == {"Exec", "ExecE", "Subst"}
WrappingCallers == {"ExecE", "Subst"}

\* what the caller of the run gets back
Returned(caller, err, errbuf) ==
    IF caller \in WrappingCallers THEN WrapStatus(err, errbuf) ELSE err

NoPump == [returned |-> FALSE, err |-> NilErr, via |-> "", outDone |-> FALSE,
           cancelled |-> FALSE, stdinDone |-> FALSE]

NoRun ==
    [caller |-> "none", stdin |-> FALSE, stdout |-> FALSE, stderr |-> FALSE,
     cancellable |-> FALSE, pc |-> "idle", calls |-> <<>>, conn |-> {},
     outTask |-> "none", stdinTask |-> "none", receiveStdout |-> <<>>,
     stdinDone |-> FALSE, cancelled |-> FALSE, errbuf |-> <<>>,
     received |-> <<>>, pump |-> NoPump, inspectOk |-> FALSE, exitCode |-> 0,
     execErr |-> NilErr, ret |-> NilErr]

\* lines 71 and 93: stdout != nil || stderr != nil
HasSinks(r) == r.stdout \/ r.stderr

\* lines 24-49: the calls that set up the connection, up to the first failure
ConnectCalls == <<"docker_client", "ContainerExecCreate", "ContainerExecAttach">>

RECURSIVE CallsUntilFailure(_, _)
CallsUntilFailure(list, faults) ==
    IF list = <<>> THEN <<>>
    ELSE IF Head(list) \in faults THEN <<Head(list)>>
    ELSE <<Head(list)>> \o CallsUntilFailure(Tail(list), faults)

ConnectErr(made, faults) ==
    IF made # <<>> /\ made[Len(made)] \in faults
    THEN PlainErr(made[Len(made)])
    ELSE NilErr

\* Exec returns err: the deferred resp.Close() runs, the wrapper of ExecE or
\* Subst reads the stderr buffer
ExecReturned(r, err) ==
    [r EXCEPT !.pc = "returned",
              !.calls = @ \o <<"resp.Close">>,
              !.execErr = err,
              !.ret = Returned(r.caller, err, r.errbuf)]

\* pumpStreams returns err, having taken the select case `via`
PumpReturn(r, err, via) ==
    LET r1 == [r EXCEPT !.pump = [returned |-> TRUE, err |-> err, via |-> via,
                                  outDone |-> r.outTask = "done",
                                  cancelled |-> r.cancelled,
                                  stdinDone |-> r.stdinDone]]
    IN  IF r.caller = "pumpStreams"
        THEN [r1 EXCEPT !.pc = "returned", !.ret = err]
        ELSE IF err.kind # "nil"
        THEN ExecReturned(r1, err)
        ELSE [r1 EXCEPT !.pc = "pumped"]

\* line 70: receiveStdout := make(chan error, 1)
ReceiveStdoutCap == 1

\* line 74, receiveStdout <- err: the send completes when the channel has
\* room (a channel without a buffer needs a receiver that waits)
SendReady_unbuffered(ch, receiving) == receiving
SendReady(ch, receiving) == Len(ch) < ReceiveStdoutCap

\* line 93: after stdin is done the call goes on waiting for the output, if
\* there is a sink for it
WaitsAfterStdin_always(hasSinks) == TRUE
WaitsAfterStdin_never(hasSinks) == FALSE
WaitsAfterStdin(hasSinks) == hasSinks

\* lines 100 and 103: the cancellation is a case of both selects
CtxDoneReady_outerOnly(pc, cancelled) == cancelled /\ pc = "select"
CtxDoneReady(pc, cancelled) == cancelled

\* lines 52-57: the exit code is inspected once pumpStreams returned nil
InspectReady_early(pc) == pc \in {"select", "select2", "pumped"}
InspectReady(pc) == pc = "pumped"

\* the caller's goroutine waits in a select of pumpStreams
Waiting == ex.pc \in {"select", "select2"}

\* a call of Exec, ExecE, Subst or pumpStreams, up to the select: the
\* connection is set up (Exec), the two goroutines are started
ExecStart(caller, stdin, stdout, stderr, faults, precancelled) ==
    LET made == IF caller = "pumpStreams" THEN <<>>
                ELSE CallsUntilFailure(ConnectCalls, faults)
        e    == ConnectErr(made, faults)
        r0   == [NoRun EXCEPT !.caller = caller, !.stdin = stdin,
                              !.stdout = stdout, !.stderr = stderr,
                              !.calls = made]
    IN  /\ ex.pc \in {"idle", "returned"}
        /\ caller = "pumpStreams" => faults = {}
        /\ caller \in ExecCallers => ~precancelled
        /\ caller = "ExecE" => stderr
        /\ caller = "Subst" => stdout /\ stderr
        /\ ex' = IF e.kind # "nil"
                 THEN [r0 EXCEPT !.pc = "returned", !.execErr = e,
                                 !.ret = Returned(caller, e, <<>>)]
                 ELSE [r0 EXCEPT !.pc = "select",
                                 !.calls = @ \o <<"pumpStreams">>,
                                 !.cancellable = (caller = "pumpStreams"),
                                 !.cancelled = precancelled,
                                 !.outTask = IF HasSinks(r0) THEN "running"
                                             ELSE "none",
                                 !.stdinTask = "running"]

\* lines 70-76, the output goroutine: stdCopy delivers the remote output
OutDrain(ch) ==
    /\ ex.outTask = "running"
    /\ ex.stderr
    /\ Len(ex.errbuf) < MaxStderr
    /\ ex' = [ex EXCEPT !.errbuf = Append(@, ch),
                        !.conn = @ \cup {"Reader.Read"}]

\* stdCopy returns (nil at the end of the output, or an error) and the
\* goroutine sends the result on receiveStdout
OutFinish(err) ==
    /\ ex.outTask = "running"
    /\ SendReady(ex.receiveStdout, Waiting)
    /\ ex' = [ex EXCEPT !.outTask = "done",
                        !.receiveStdout = Append(@, err)]

\* lines 78-85, the stdin goroutine: copy stdin if there is one, half-close
\* the connection, close stdinDone
StdinDrain ==
    /\ ex.stdinTask = "running"
    /\ ex' = [ex EXCEPT !.stdinTask = "done",
                        !.conn = @ \cup (IF ex.stdin THEN {"Conn.Write"} ELSE {})
                                   \cup {"CloseWrite"},
                        !.stdinDone = TRUE]

\* the context of a direct pumpStreams call is cancelled
Cancel ==
    /\ Waiting
    /\ ex.cancellable
    /\ ~ex.cancelled
    /\ ex' = [ex EXCEPT !.cancelled = TRUE]

\* lines 88-91 and 96-99: the result of the output drain is received
SelectReceive ==
    /\ Waiting
    /\ ex.receiveStdout # <<>>
    /\ LET e == Head(ex.receiveStdout)
       IN  ex' = PumpReturn([ex EXCEPT !.receiveStdout = Tail(@),
                                       !.received = <<e>>],
                            e, "receiveStdout")

\* lines 92-102: stdinDone is closed
SelectStdinDone ==
    /\ ex.pc = "select"
    /\ ex.stdinDone
    /\ ex' = IF WaitsAfterStdin(HasSinks(ex))
             THEN [ex EXCEPT !.pc = "select2"]
             ELSE PumpReturn(ex, NilErr, "stdinDone")

\* lines 100 and 103: the context is done
SelectCtxDone ==
    /\ Waiting
    /\ CtxDoneReady(ex.pc, ex.cancelled)
    /\ ex' = PumpReturn(ex, NilErr, "ctx.Done")

\* lines 57-64: the exit code of the command is inspected, Exec returns
ExecInspect(ok, code) ==
    /\ ex.caller \in ExecCallers
    /\ InspectReady(ex.pc)
    /\ ex' = ExecReturned([ex EXCEPT !.calls = @ \o <<"ContainerExecInspect">>,
                                     !.inspectOk = ok,
                                     !.exitCode = code],
                          IF ~ok THEN PlainErr("ContainerExecInspect")
                          ELSE IF code # 0 THEN StatusError(code, <<>>)
                          ELSE NilErr)

\* the exit codes of the remote command
ExitCodes == {0, 1, 137}

\* the connection set-up fails at one call, or not at all
ConnectFaults == {{}} \cup {{ConnectCalls[i]} : i \in 1..Len(ConnectCalls)}

(***************************************************************************)
(* THE CGROUP MANAGER: Cgroup.create and Cgroup.delete                     *)
(* (src/src/main/java/com/cloudway/platform/container/plugin/Cgroup.java). *)
(*                                                                         *)
(* The state is the file system as the code uses it: the rules file and    *)
(* the config file with their temporary siblings (a path names an inode,   *)
(* an open file keeps its inode whatever happens to the path), and the     *)
(* per-subsystem directories of the groups.  A file is a sequence of       *)
(* characters; the fixed parts of a line stand as one character each.      *)
(* An operation runs step by step: the directories, then for each file     *)
(* the three steps of overwrite_with_safe_swap (open, rewrite, move).  A   *)
(* run may stop at any step (the process dies, or the file system raises   *)
(* an IOException there): what it did so far stays.                        *)
(***************************************************************************)
\* CG_SUBSYSTEMS, in order (two of the configured subsystems)
Subsystems == <<"cpu", "memory">>

\* the identities: one is a prefix of another
Uuids == {<<"a">>, <<"a", "b">>, <<"c">>}

CGRULES  == "cgrules.conf"
CGCONFIG == "cgconfig.conf"
CgFiles  == {CGRULES, CGCONFIG}

\* line 479: the sibling of the file whose name ends in "~"
TempOf(file) == IF file = CGRULES THEN "cgrules.conf~" ELSE "cgconfig.conf~"
CgPaths == CgFiles \cup {TempOf(f) : f \in CgFiles}

\* the inodes of the model: one per path and two per running operation
NumInodes == 8
\* the operations that stop before their end, in one run of the model
MaxAborts == 1
\* the operations that ran before two operations run concurrently
MaxSetups == 2

CgProcs == {1, 2}

\* String.startsWith
StartsWith(line, prefix) ==
    /\ Len(prefix) <= Len(line)
    /\ SubSeq(line, 1, Len(prefix)) = prefix

\* lines 415-417: uuid TAB subsystems TAB path
RulesRow(uuid) == uuid \o <<"TAB subsystems TAB path">>

\* line 437: "group " + CG_ROOT + "/" + uuid + " "
ConfigPrefix(uuid) == <<"group /cloudway/">> \o uuid \o <<"SP">>
\* lines 449-450: the prefix and the generated configuration
ConfigRow(uuid) == ConfigPrefix(uuid) \o <<"{cfg}">>

\* RandomAccessFile.readLine until the end of the file: the text between
\* line terminators, and what follows the last terminator if anything does
RECURSIVE ReadLines(_)
ReadLines(s) ==
    IF s = <<>> THEN <<>>
    ELSE LET ends == {i \in 1..Len(s) : s[i] = LF}
         IN  IF ends = {} THEN <<s>>
             ELSE LET e == CHOOSE i \in ends : \A j \in ends : i <= j
                  IN  <<SubSeq(s, 1, e - 1)>> \o ReadLines(SubSeq(s, e + 1, Len(s)))

\* lines 408 and 442: a line is copied unless it starts with the prefix
KeepLine_none(line, prefix) == FALSE
KeepLine(line, prefix) == ~StartsWith(line, prefix)

\* lines 407-412 and 441-446: the copy loop
RECURSIVE CopyLines(_, _)
CopyLines(lines, prefix) ==
    IF lines = <<>> THEN <<>>
    ELSE (IF KeepLine(Head(lines), prefix) THEN Head(lines) \o <<LF>> ELSE <<>>)
         \o CopyLines(Tail(lines), prefix)

\* update_cgrules(recreate): what is written to the temporary file
UpdateCgrules(old, uuid, recreate) ==
    CopyLines(ReadLines(old), uuid)
    \o (IF recreate THEN RulesRow(uuid) \o <<LF>> ELSE <<>>)

\* update_cgconfig(newcfg): what is written to the temporary file
UpdateCgconfig(old, uuid, hasNewcfg) ==
    CopyLines(ReadLines(old), ConfigPrefix(uuid))
    \o (IF hasNewcfg THEN ConfigRow(uuid) \o <<LF>> ELSE <<>>)

\* create passes recreate = true and a configuration, delete false and null
Rewritten(file, old, op, uuid) ==
    IF file = CGRULES
    THEN UpdateCgrules(old, uuid, op = "create")
    ELSE UpdateCgconfig(old, uuid, op = "create")

\* line 488: RandomAccessFile(tempfile, "rw") opens the file as it is, and
\* the writes start at offset 0: what the file held beyond them stays
Overlay(old, new) == new \o SubSeq(old, Len(new) + 1, Len(old))

NoSwap == [begun |-> FALSE, pre |-> <<>>, intended |-> <<>>, moved |-> FALSE]
NoCall == [op |-> "none", uuid |-> <<>>, err |-> ""]

IdleProc ==
    [op |-> "none", uuid |-> <<>>, pc |-> "idle", file |-> CGCONFIG,
     inH |-> 0, outH |-> 0, steps |-> <<>>, err |-> "",
     pre |-> [rules |-> <<>>, config |-> <<>>, dirs |-> {}],
     swaps |-> [f \in CgFiles |-> NoSwap], prev |-> NoCall]

CgInit ==
    [paths |-> [x \in CgPaths |-> 0],
     inodes |-> [i \in 1..NumInodes |-> <<>>],
     dirs |-> {},
     procs |-> [p \in CgProcs |-> IdleProc],
     aborts |-> 0, setups |-> 0, forked |-> FALSE, overlapped |-> {}]

\* what a path holds (nothing, if the path does not exist)
Content(c, path) == IF c.paths[path] = 0 THEN <<>> ELSE c.inodes[c.paths[path]]

\* what an open file holds (inH = 0: /dev/null, lines 484-486)
Held(c, h) == IF h = 0 THEN <<>> ELSE c.inodes[h]

Referenced(c) ==
    ({c.paths[x] : x \in CgPaths}
     \cup {c.procs[p].inH : p \in CgProcs}
     \cup {c.procs[p].outH : p \in CgProcs}) \ {0}

FreeInode(c) ==
    CHOOSE i \in 1..NumInodes :
        /\ i \notin Referenced(c)
        /\ \A j \in 1..(i - 1) : j \in Referenced(c)

\* an inode that no path and no open file refers to is gone
Collect(c) ==
    [c EXCEPT !.inodes = [i \in 1..NumInodes |->
                            IF i \in Referenced(c) THEN c.inodes[i] ELSE <<>>]]

\* the directories of a group: cgpaths, one per subsystem
GroupDirs(uuid) == {<<Subsystems[i], uuid>> : i \in 1..Len(Subsystems)}
FirstDirs(uuid, k) == {<<Subsystems[i], uuid>> : i \in 1..k}

\* the step that follows the move of a file
AfterMove_configOnly(pr) ==
    IF pr.op = "create" THEN [pr EXCEPT !.pc = "store"]
    ELSE [pr EXCEPT !.pc = "cgdelete"]
AfterMove(pr) ==
    IF pr.file = CGCONFIG THEN [pr EXCEPT !.pc = "open", !.file = CGRULES]
    ELSE IF pr.op = "create" THEN [pr EXCEPT !.pc = "store"]
    ELSE [pr EXCEPT !.pc = "cgdelete"]

Done(pr, err) == [pr EXCEPT !.pc = "done", !.err = err, !.inH = 0, !.outH = 0]

\* lines 481-488: the file is opened for reading (or /dev/null if it does not
\* exist), the temporary file is opened for reading and writing (and created
\* if it does not exist)
SwapOpen(c, p) ==
    LET pr   == c.procs[p]
        temp == TempOf(pr.file)
        c1   == IF c.paths[temp] # 0 THEN c
                ELSE [c EXCEPT !.paths[temp] = FreeInode(c)]
        old  == Content(c, pr.file)
        busy == \E q \in CgProcs \ {p} :
                    /\ c.procs[q].file = pr.file
                    /\ c.procs[q].pc \in {"write", "move"}
    IN  [c1 EXCEPT !.procs[p].inH = c.paths[pr.file],
                   !.procs[p].outH = c1.paths[temp],
                   !.procs[p].pc = "write",
                   !.procs[p].swaps[pr.file] =
                        [begun |-> TRUE, pre |-> old,
                         intended |-> Rewritten(pr.file, old, pr.op, pr.uuid),
                         moved |-> FALSE],
                   !.overlapped = IF busy THEN @ \cup {pr.file} ELSE @]

\* what the rewrite writes, from what the open file holds now
SwapText(c, p) ==
    LET pr == c.procs[p]
    IN  Rewritten(pr.file, Held(c, pr.inH), pr.op, pr.uuid)

\* lines 488-492: the first k characters of the rewrite are written, both
\* files are closed
SwapWrite(c, p, k) ==
    LET pr   == c.procs[p]
        text == SubSeq(SwapText(c, p), 1, k)
    IN  Collect([c EXCEPT !.inodes[pr.outH] = Overlay(@, text),
                          !.procs[p].inH = 0,
                          !.procs[p].outH = 0,
                          !.procs[p].pc = "move"])

\* line 494: Files.move(tempfile, file, REPLACE_EXISTING, ATOMIC_MOVE)
SwapMove(c, p) ==
    LET pr   == c.procs[p]
        temp == TempOf(pr.file)
    IN  IF c.paths[temp] = 0
        THEN [c EXCEPT !.procs[p] = Done(pr, "NoSuchFileException")]
        ELSE Collect([c EXCEPT !.paths[pr.file] = c.paths[temp],
                               !.paths[temp] = 0,
                               !.procs[p] = AfterMove(
                                   [pr EXCEPT !.swaps[pr.file].moved = TRUE,
                                              !.steps = Append(@, pr.file)])])

\* lines 259-280: store fails for a group without directories
Store(c, p) ==
    LET pr == c.procs[p]
    IN  IF GroupDirs(pr.uuid) \subseteq c.dirs
        THEN [c EXCEPT !.procs[p].pc = "cgclassify",
                       !.procs[p].steps = Append(@, "store")]
        ELSE [c EXCEPT !.procs[p] = Done(pr, "User does not exist in cgroups")]

\* one step of the operation of p
CgStepResult(c, p) ==
    LET pr == c.procs[p]
    IN  CASE pr.pc = "cgcreate" ->
                [c EXCEPT !.dirs = @ \cup GroupDirs(pr.uuid),
                          !.procs[p].pc = "open",
                          !.procs[p].steps = Append(@, "cgcreate")]
          [] pr.pc = "open"  -> SwapOpen(c, p)
          [] pr.pc = "write" -> SwapWrite(c, p, Len(SwapText(c, p)))
          [] pr.pc = "move"  -> SwapMove(c, p)
          [] pr.pc = "store" -> Store(c, p)
          [] pr.pc = "cgclassify" ->
                [c EXCEPT !.procs[p] =
                    Done([pr EXCEPT !.steps = Append(@, "cgclassify")], "")]
          [] pr.pc = "cgdelete" ->
                [c EXCEPT !.dirs = @ \ GroupDirs(pr.uuid),
                          !.procs[p] =
                    Done([pr EXCEPT !.steps = Append(@, "cgdelete")], "")]
          [] OTHER -> c

Running(pr) == pr.pc \notin {"idle", "done"}

\* lines 185-214 and 227-231: create starts with the directories, delete
\* with the config file
CgStart(c, p, op, uuid) ==
    LET pr == c.procs[p]
    IN  [c EXCEPT !.procs[p] =
            [IdleProc EXCEPT !.op = op, !.uuid = uuid,
                             !.pc = IF op = "create" THEN "cgcreate" ELSE "open",
                             !.pre = [rules |-> Content(c, CGRULES),
                                      config |-> Content(c, CGCONFIG),
                                      dirs |-> c.dirs],
                             !.prev = [op |-> pr.op, uuid |-> pr.uuid,
                                       err |-> pr.err]]]

\* the operation of p stops in the step it is about to take, having done k
\* units of it: k characters of a rewrite, k directories
StopChoices(c, p) ==
    LET pr == c.procs[p]
    IN  IF pr.pc = "write" THEN 0..Len(SwapText(c, p))
        ELSE IF pr.pc \in {"cgcreate", "cgdelete"} THEN 0..(Len(Subsystems) - 1)
        ELSE {0}

CgStopResult(c, p, k) ==
    LET pr == c.procs[p]
        c1 == CASE pr.pc = "write" -> SwapWrite(c, p, k)
                [] pr.pc = "cgcreate" ->
                      [c EXCEPT !.dirs = @ \cup FirstDirs(pr.uuid, k)]
                [] pr.pc = "cgdelete" ->
                      [c EXCEPT !.dirs = @ \ FirstDirs(pr.uuid, k)]
                [] OTHER -> c
    IN  Collect([c1 EXCEPT !.procs[p] = Done(pr, "stopped"),
                           !.aborts = @ + 1])

\* a whole operation, from its start to its end
RECURSIVE RunToEnd(_, _)
RunToEnd(c, p) ==
    IF Running(c.procs[p]) THEN RunToEnd(CgStepResult(c, p), p) ELSE c

(***************************************************************************)
(* THE CONTAINER PLUGIN (ContainerPlugin.java)                             *)
(*                                                                         *)
(* createUser, deleteUser, createHomeDir and killProcs are abstract: what  *)
(* each of them does is an input.  A step returns, throws the IOException  *)
(* of its signature, or throws an unchecked exception (the class itself    *)
(* turns an IOException into a RuntimeIOException, lines 196 and 213).     *)
(***************************************************************************)
Returns == "returns"
IOException == "IOException"
RuntimeException == "RuntimeException"
IllegalArgumentException == "IllegalArgumentException"
NothingThrown == "none"

StepOutcomes == {Returns, IOException, RuntimeException}

Step(call, outcome) == [call |-> call, outcome |-> outcome]

RECURSIVE CallsOf(_)
CallsOf(steps) ==
    IF steps = <<>> THEN <<>>
    ELSE <<Head(steps).call>> \o CallsOf(Tail(steps))

\* lines 281-287: catch (Exception ex) { // log and ignore }
Nothrow_ioOnly(outcome) == IF outcome = IOException THEN Returns ELSE outcome
Nothrow(outcome) ==
    IF outcome \in {IOException, RuntimeException} THEN Returns ELSE outcome

\* line 66: catch (IOException ex)
CaughtByCreate(outcome) == outcome = IOException

NoIpCall ==
    [called |-> FALSE, uid |-> 0, host_id |-> 0, UID_WRAPAROUND |-> 0,
     IP_OFFSET |-> 0, thrown |-> NothingThrown, ip_offset |-> 0,
     address |-> <<>>]

\* no user, no home directory, no process; no operation yet
NoPlugin ==
    [user |-> FALSE, home |-> FALSE, procs |-> FALSE,
     op |-> "none", steps |-> <<>>, thrown |-> NothingThrown,
     pre |-> [user |-> FALSE, home |-> FALSE, procs |-> FALSE],
     cur |-> NoIpCall, prev |-> NoIpCall]

\* an operation starts: what there was before it is kept
Before(p) ==
    [p EXCEPT !.pre = [user |-> p.user, home |-> p.home, procs |-> p.procs]]

\* the abstract steps: a step that returns has done its work; a createUser
\* or createHomeDir that throws may have done part of it (made); a
\* deleteUser or killProcs that throws has removed nothing
AfterCreateUser(p, outcome, made) ==
    [p EXCEPT !.user = IF outcome = Returns THEN TRUE ELSE (@ \/ made)]

AfterCreateHomeDir(p, outcome, made) ==
    [p EXCEPT !.home = IF outcome = Returns THEN TRUE ELSE (@ \/ made)]

AfterDeleteUser(p, outcome) ==
    IF outcome = Returns THEN [p EXCEPT !.user = FALSE, !.home = FALSE] ELSE p

AfterKillProcs(p, outcome) ==
    IF outcome = Returns THEN [p EXCEPT !.procs = FALSE] ELSE p

\* lines 60-71
PluginCreateResult(p, cu, userMade, ch, homeMade, du) ==
    LET p1 == AfterCreateUser(Before(p), cu, userMade)
        s1 == <<Step("createUser", cu)>>
        p2 == IF cu = Returns THEN AfterCreateHomeDir(p1, ch, homeMade) ELSE p1
        s2 == IF cu = Returns THEN s1 \o <<Step("createHomeDir", ch)>> ELSE s1
        ex1 == IF cu # Returns THEN cu ELSE ch
        caught == CaughtByCreate(ex1)
        p3 == IF caught THEN AfterDeleteUser(p2, du) ELSE p2
        s3 == IF caught THEN s2 \o <<Step("deleteUser", du)>> ELSE s2
        \* line 68: nothrow(this::deleteUser); line 69: throw ex
        thrown == IF caught
                  THEN (IF Nothrow(du) = Returns THEN ex1 ELSE Nothrow(du))
                  ELSE (IF ex1 = Returns THEN NothingThrown ELSE ex1)
    IN  [p3 EXCEPT !.op = "create", !.steps = s3, !.thrown = thrown]

\* lines 76-81
PluginDestroyResult(p, kp, du) ==
    LET p1 == AfterKillProcs(Before(p), kp)
        s1 == <<Step("killProcs", kp)>>
        t1 == Nothrow(kp)
        p2 == IF t1 = Returns THEN AfterDeleteUser(p1, du) ELSE p1
        s2 == IF t1 = Returns THEN s1 \o <<Step("deleteUser", du)>> ELSE s1
        t2 == IF t1 = Returns THEN Nothrow(du) ELSE t1
    IN  [p2 EXCEPT !.op = "destroy", !.steps = s2,
                   !.thrown = IF t2 = Returns THEN NothingThrown ELSE t2]

\* lines 104-108: the subclass starts the processes of the container
PluginStartResult(p) ==
    [Before(p) EXCEPT !.op = "start", !.steps = <<>>,
                      !.thrown = NothingThrown, !.procs = TRUE]

\* the configurations: UID_WRAPAROUND and IP_OFFSET, the defaults of lines
\* 154 and 155 first
DefaultWraparound == 65536
DefaultIpOffset == 1
OffsetLimit == 1000
IpConfigs ==
    {[UID_WRAPAROUND |-> DefaultWraparound, IP_OFFSET |-> DefaultIpOffset],
     [UID_WRAPAROUND |-> DefaultWraparound, IP_OFFSET |-> OffsetLimit - 1],
     [UID_WRAPAROUND |-> DefaultWraparound, IP_OFFSET |-> OffsetLimit],
     [UID_WRAPAROUND |-> 4, IP_OFFSET |-> DefaultIpOffset]}
\* the uids and host identifiers tried: both sides of every comparison of
\* lines 148-160
IpUids == {-1, 0, 1, 2, 65535, 65536, 65537, 131071}
IpHostIds == {0, 1, 2, 63, 127, 128}

\* line 157-160
EffectiveOffset_aboveOnly(uid, wraparound, offset) ==
    IF uid > wraparound \/ offset >= OffsetLimit THEN 0 ELSE offset
EffectiveOffset(uid, wraparound, offset) ==
    IF offset >= OffsetLimit \/ uid < wraparound THEN 0 ELSE offset

\* line 164: << 7
Shifted_by6(n) == n * 64
Shifted(n) == n * 128

\* lines 163-167.  The int ip is 0x7F000000 plus a number below 2^31: its
\* low 24 bits are those of the number, its high 8 bits are 127 plus the
\* carry, as a signed byte (ip >> 24 keeps the sign of the int)
TwoTo24 == 16777216
LoopbackTop == 127
DottedQuad(n) ==
    LET low == n % TwoTo24
        top == (LoopbackTop + (n \div TwoTo24)) % 256
    IN  << IF top >= 128 THEN top - 256 ELSE top,
           low \div 65536, (low \div 256) % 256, low % 256 >>

\* lines 145-168
GetIpAddress(uid, host_id, cfg) ==
    LET call == [NoIpCall EXCEPT !.called = TRUE, !.uid = uid,
                                 !.host_id = host_id,
                                 !.UID_WRAPAROUND = cfg.UID_WRAPAROUND,
                                 !.IP_OFFSET = cfg.IP_OFFSET]
        ip_offset == EffectiveOffset(uid, cfg.UID_WRAPAROUND, cfg.IP_OFFSET)
    IN  IF uid < 0 \/ host_id < 1 \/ host_id > 127
        THEN [call EXCEPT !.thrown = IllegalArgumentException]
        ELSE [call EXCEPT
                !.ip_offset = ip_offset,
                !.address = DottedQuad(
                    Shifted((uid % cfg.UID_WRAPAROUND) + ip_offset) + host_id)]

(***************************************************************************)
(* THE APPLICATION HANDLERS OF THE API SERVER (system.go)                  *)
(***************************************************************************)
\* the longest application name of a request
MaxNameLen == 3
\* the characters of a name: both ends of a-z, a digit, the underscore, and
\* three characters outside the pattern
LowerCase == {"a", "z"}
Digits == {"0"}
Underscore == "_"
NameChars == LowerCase \cup Digits \cup {Underscore, "A", "-", LF}
Names == UNION {[1..n -> NameChars] : n \in 0..MaxNameLen}
Frameworks == {"", "php"}

\* line 238: regexp.MustCompile("^[a-z][a-z_0-9]*$"), matched as the
\* automaton of the expression does: one state before the first character,
\* one state after it; $ is the end of the text
RECURSIVE RestMatches(_)
RestMatches(s) ==
    \/ s = <<>>
    \/ /\ s # <<>>
       /\ Head(s) \in LowerCase \cup Digits \cup {Underscore}
       /\ RestMatches(Tail(s))

MatchString_anyFirst(s) == s # <<>> /\ RestMatches(Tail(s))
MatchString(s) == s # <<>> /\ Head(s) \in LowerCase /\ RestMatches(Tail(s))

StatusBadRequest == 400
NoResponse == [status |-> 0, body |-> "none"]
\* http.Error(w, msg, http.StatusBadRequest)
BadRequest(msg) == [status |-> StatusBadRequest, body |-> msg]
\* serverlog.SendError / serverlog.SendObject write a record of the log
LogRecord(what) == [status |-> 0, body |-> what]

NoCreate ==
    [called |-> FALSE, decoded |-> FALSE, name |-> <<>>, framework |-> "",
     calls |-> <<>>, response |-> NoResponse, ret |-> "nil"]

\* lines 240-294; faults: the calls that fail
CreateHandlerCalls ==
    {"ParseForm", "CheckForJSON", "Decode", "CreateApplication",
     "StartContainers", "getInfo"}

CreateHandler(name, framework, faults) ==
    LET c == [NoCreate EXCEPT !.called = TRUE]
        d == [c EXCEPT !.decoded = TRUE, !.name = name,
                       !.framework = framework]
    IN  IF "ParseForm" \in faults THEN [c EXCEPT !.ret = "ParseForm"]
        ELSE IF "CheckForJSON" \in faults THEN [c EXCEPT !.ret = "CheckForJSON"]
        ELSE IF "Decode" \in faults THEN [c EXCEPT !.ret = "Decode"]
        ELSE IF ~MatchString(name)
        THEN [d EXCEPT !.response = BadRequest("name")]
        ELSE IF framework = ""
        THEN [d EXCEPT !.response = BadRequest("framework")]
        ELSE IF "CreateApplication" \in faults
        THEN [d EXCEPT !.calls = <<"CreateApplication">>,
                       !.response = LogRecord("CreateApplication")]
        ELSE IF "StartContainers" \in faults
        THEN [d EXCEPT !.calls = <<"CreateApplication", "StartContainers">>,
                       !.response = LogRecord("StartContainers")]
        ELSE [d EXCEPT
                !.calls = <<"CreateApplication", "StartContainers", "getInfo">>,
                !.response = IF "getInfo" \in faults
                             THEN LogRecord("getInfo")
                             ELSE LogRecord("info")]

\* the applications of the user
AllApps == {"app1", "app2", "app3"}
MuFree == "free"

NoStatus ==
    [phase |-> "idle", apps |-> {}, pc |-> [n \in AllApps |-> "none"],
     succeeded |-> {}, mu |-> MuFree, wg |-> 0, status |-> {},
     response |-> {}, ret |-> "nil"]

NoApi == [create |-> NoCreate, st |-> NoStatus]

\* lines 386-409: Refresh, wg.Add(len(apps)), one goroutine per application
AllStatusStart(apps, refreshOk) ==
    IF ~refreshOk
    THEN [NoStatus EXCEPT !.phase = "returned", !.ret = "Refresh"]
    ELSE [NoStatus EXCEPT
            !.phase = "waiting", !.apps = apps, !.wg = Cardinality(apps),
            !.pc = [n \in AllApps |-> IF n \in apps THEN "spawned" ELSE "none"]]

\* line 402: getStatus; line 403: if err == nil; line 401: defer wg.Done()
StoresStatus_always(ok) == TRUE
StoresStatus(ok) == ok

Queried(s, n, ok) ==
    LET s1 == [s EXCEPT !.succeeded = IF ok THEN @ \cup {n} ELSE @]
    IN  IF StoresStatus(ok)
        THEN [s1 EXCEPT !.pc[n] = "lock"]
        ELSE [s1 EXCEPT !.pc[n] = "done", !.wg = @ - 1]

\* line 404: mu.Lock()
Locked(s, n) == [s EXCEPT !.pc[n] = "store", !.mu = n]
\* line 405: status[name] = st
Stored(s, n) == [s EXCEPT !.pc[n] = "unlock", !.status = @ \cup {n}]
\* line 406: mu.Unlock(), then the deferred wg.Done()
Unlocked(s, n) == [s EXCEPT !.pc[n] = "done", !.mu = MuFree, !.wg = @ - 1]

\* line 410: wg.Wait() returns when the counter is zero
WaitReady_first(s) == s.wg < Cardinality(s.apps) \/ s.apps = {}
WaitReady(s) == s.wg = 0

\* line 411: httputils.WriteJSON(w, http.StatusOK, status)
Responded(s, writeOk) ==
    [s EXCEPT !.phase = "returned", !.response = s.status,
              !.ret = IF writeOk THEN "nil" ELSE "WriteJSON"]

(***************************************************************************)
(* SPECIFICATIONS                                                          *)
(***************************************************************************)
Init ==
    /\ userdb = [u \in UserNames |-> Absent]
    /\ scmNamespaces = {}
    /\ containers = {}
    /\ wire = <<>>
    /\ wlog = <<>>
    /\ last = NoOp
    /\ ex = NoRun
    /\ cg = CgInit
    /\ pl = NoPlugin
    /\ api = NoApi

BrokerCreateUser ==
    \E name \in UserNames, ns \in NsNames \cup {NoNamespace},
       faults \in CreateUserFaults :
        /\ CreateUser(name, ns, faults)
        /\ UNCHANGED <<codecVars, nodeVars, appVars>>

BrokerRemoveUser ==
    \E name \in UserNames :
        \E faults \in RemoveUserFaults,
           broken \in SUBSET FindInNamespace(containers, userdb[name]) :
            /\ RemoveUser(name, faults, broken)
            /\ UNCHANGED <<codecVars, nodeVars, appVars>>

\* an application of a user of the database gets its containers
BrokerCreateContainers ==
    \E o \in BrokerCreateOpts :
        /\ \E u \in UserNames : userdb[u] = o.Namespace
        /\ EngineCreate(o)
        /\ UNCHANGED <<brokerVars, codecVars, nodeVars, appVars>>

EngineCreateAny ==
    \E o \in EngineOpts :
        /\ EngineCreate(o)
        /\ UNCHANGED <<brokerVars, codecVars, nodeVars, appVars>>

EngineDestroyAny ==
    \E c \in containers, ok \in BOOLEAN :
        /\ EngineDestroy(c, ok)
        /\ UNCHANGED <<brokerVars, codecVars, nodeVars, appVars>>

\* a run of the codec: the writers write, then Copy reads what they wrote,
\* all of it or up to a point inside the last frame written (the stream was
\* closed inside a frame).  Copy is a function of its input, so one
\* application per run is enough.
CodecWrite ==
    \E w \in WriteInputs :
        /\ last.op # "Copy"
        /\ Write(w.instantiated, w.t, w.p)
        /\ UNCHANGED <<brokerVars, containers, nodeVars, appVars>>

CodecCopy ==
    \E dst \in DstConfigs, cut \in (Len(wire) - LastChunkLen)..Len(wire),
       eofWithData \in BOOLEAN :
        \E chunk \in ReadChunks(cut) :
            /\ last.op # "Copy"
            /\ Copy(dst, cut, chunk, eofWithData)
            /\ UNCHANGED <<brokerVars, containers, nodeVars, appVars>>

(***************************************************************************)
(* THE BITBUCKET CLIENT (src/unnamed/part_001)                             *)
(*                                                                         *)
(* The client is stateless: a call is a sequence of requests, and what the *)
(* server answers to each is an input.  An answer is the status code of    *)
(* the response and whether the REST client returns an error with it (it   *)
(* does for a status that is not a success, and when there is no answer).  *)
(* For RemoveNamespace the server keeps the list of the repositories of    *)
(* the project; a page request with start = s is answered with PageLimit   *)
(* entries of the list from offset s.                                      *)
(***************************************************************************)
\* http.StatusNotFound, http.StatusConflict
StatusNotFound == 404
StatusConflict == 409

RespOk(status) == [StatusCode |-> status, err |-> FALSE]
RespFailed(status) == [StatusCode |-> status, err |-> TRUE]

\* the answers to a create request, to a delete request, to the hook request
\* (status 0: no answer from the server)
PostResponses == {RespOk(201), RespFailed(StatusNotFound), RespFailed(StatusConflict),
                  RespFailed(500), RespFailed(0)}
DeleteResponses == {RespOk(202), RespFailed(StatusNotFound), RespFailed(500)}
PutResponses == {RespOk(200), RespFailed(500)}

\* lines 425-433: the error of the REST client, or the errors of its body
CheckServerError(resp) == IF resp.err THEN "ServerError" ELSE "nil"

\* lines 414-423
CheckNamespaceError(resp) ==
    IF resp.StatusCode = StatusNotFound THEN "NamespaceNotFound"
    ELSE IF resp.StatusCode = StatusConflict THEN "NamespaceExist"
    ELSE CheckServerError(resp)

\* lines 120-129: a repository that is not there counts as purged
PurgeRepo(resp) ==
    IF resp.StatusCode = StatusNotFound THEN "nil" ELSE CheckServerError(resp)

\* lines 157-164: the error of CreateRepo after a failed create request
CreateRepoError_serverOnly(resp, err) == err
CreateRepoError(resp, err) ==
    IF resp.StatusCode = StatusNotFound THEN "NamespaceNotFound"
    ELSE IF resp.StatusCode = StatusConflict THEN "RepoExist"
    ELSE err

BbCall(req, start, repo, resp) ==
    [req |-> req, start |-> start, repo |-> repo, resp |-> resp]

\* lines 142-165: the loop of CreateRepo; posts are the answers to the
\* create requests, in order
RECURSIVE CreateRepoLoop(_, _, _, _, _)
CreateRepoLoop(purge, purged, posts, purgeResp, calls) ==
    LET resp    == Head(posts)
        purging == purge /\ ~purged /\ resp.StatusCode = StatusConflict
        calls1  == Append(calls, BbCall("create", 0, 0, resp))
        calls2  == IF purging
                   THEN Append(calls1, BbCall("purge", 0, 0, purgeResp))
                   ELSE calls1
        err     == IF purging THEN PurgeRepo(purgeResp)
                   ELSE CheckServerError(resp)
    IN  IF purging /\ err = "nil"
        THEN CreateRepoLoop(purge, TRUE, Tail(posts), purgeResp, calls2)
        ELSE IF err = "nil"
        THEN [calls |-> calls2, created |-> TRUE, err |-> "nil"]
        ELSE [calls |-> calls2, created |-> FALSE,
              err |-> CreateRepoError(resp, err)]

\* lines 131-175: CreateRepo
CreateRepo(purge, posts, purgeResp, hookResp) ==
    LET r == CreateRepoLoop(purge, FALSE, posts, purgeResp, <<>>)
    IN  IF r.created
        THEN [calls |-> Append(r.calls, BbCall("hook", 0, 0, hookResp)),
              err |-> CheckServerError(hookResp)]
        ELSE [calls |-> r.calls, err |-> r.err]

\* the repositories of a project, at most
MaxRepos == 3
\* the entries of a page of the server
PageLimit == 2

Range(s) == {s[i] : i \in 1..Len(s)}

\* the answer of the server to a page request: the entries from offset
\* start, the offset of the next page, whether this is the last page
RepoPage(list, start) ==
    [Values |-> SubSeq(list, start + 1, Min(start + PageLimit, Len(list))),
     NextPageStart |-> start + PageLimit,
     IsLastPage |-> start + PageLimit >= Len(list)]

NoFault == [at |-> 0, status |-> 500]

\* the answer to the next request: the failure that is an input, or what the
\* server answers when it works
Answer(st, fault, normal) ==
    IF fault.at = Len(st.calls) + 1 THEN RespFailed(fault.status) ELSE normal

\* lines 84-89: the repositories of a page are purged, up to a failure; a
\* repository the server does not find is gone
RECURSIVE PurgeValues(_, _, _)
PurgeValues(values, st, fault) ==
    IF values = <<>> THEN st
    ELSE LET repo == Head(values)
             resp == Answer(st, fault,
                            IF repo \in Range(st.repos) THEN RespOk(202)
                            ELSE RespFailed(StatusNotFound))
             st1  == [st EXCEPT
                        !.calls = Append(@, BbCall("purge", 0, repo, resp)),
                        !.repos = IF PurgeRepo(resp) # "nil" THEN @
                                  ELSE SelectSeq(@, LAMBDA x : x # repo)]
         IN  IF PurgeRepo(resp) # "nil"
             THEN [st1 EXCEPT !.err = PurgeRepo(resp)]
             ELSE PurgeValues(Tail(values), st1, fault)

\* lines 98-101: the project is deleted; the server refuses to delete a
\* project that has repositories
DeleteProject(st, fault) ==
    LET resp == Answer(st, fault,
                       IF st.repos # <<>> THEN RespFailed(StatusConflict)
                       ELSE RespOk(204))
    IN  [st EXCEPT !.calls = Append(@, BbCall("deleteProject", 0, 0, resp)),
                   !.err = CheckNamespaceError(resp),
                   !.deleted = ~resp.err]

\* lines 79-96: the loop over the pages.  A server that lists the project as
\* it is now (live) answers from what is left of the list; otherwise the
\* pages are those of the list as it was at the start of the call
RECURSIVE RemoveNamespaceLoop(_, _, _, _)
RemoveNamespaceLoop(start, st, fault, live) ==
    LET resp == Answer(st, fault, RespOk(200))
        page == RepoPage(IF live THEN st.repos ELSE st.repos0, start)
        st1  == [st EXCEPT !.calls = Append(@, BbCall("page", start, 0, resp))]
    IN  IF resp.err
        THEN [st1 EXCEPT !.err = CheckNamespaceError(resp)]
        ELSE LET st2 == PurgeValues(page.Values, st1, fault)
             IN  IF st2.err # "nil" THEN st2
                 ELSE IF page.IsLastPage THEN DeleteProject(st2, fault)
                 ELSE RemoveNamespaceLoop(page.NextPageStart, st2, fault, live)

\* lines 76-102: RemoveNamespace of a project with the repositories 1..n
RemoveNamespace(n, fault, live) ==
    RemoveNamespaceLoop(0, [repos0 |-> [i \in 1..n |-> i],
                            repos |-> [i \in 1..n |-> i],
                            calls |-> <<>>, err |-> "nil", deleted |-> FALSE],
                        fault, live)

\* a call of CreateRepo: the answers of the server are inputs
BbCreateRepo ==
    \E purge \in BOOLEAN, p1 \in PostResponses, p2 \in PostResponses,
       purgeResp \in DeleteResponses, hookResp \in PutResponses :
        LET r == CreateRepo(purge, <<p1, p2, p2>>, purgeResp, hookResp)
        IN  /\ last.op = "none"
            /\ last' = [op |-> "CreateRepo", purge |-> purge,
                        calls |-> r.calls, err |-> r.err]
            /\ UNCHANGED <<brokerVars, containers, codecVars, nodeVars, appVars>>

\* a call of RemoveNamespace: the repositories of the project, the request
\* that fails and how the server pages are inputs
BbRemoveNamespace ==
    \E n \in 0..MaxRepos, live \in BOOLEAN, at \in 0..(2 * MaxRepos),
       status \in {StatusNotFound, 500, 0} :
        LET fault == [at |-> at, status |-> status]
            r     == RemoveNamespace(n, fault, live)
        IN  /\ last.op = "none"
            /\ at = 0 => fault = NoFault
            /\ at <= Len(r.calls)
            /\ last' = [op |-> "RemoveNamespace", repos0 |-> r.repos0,
                        live |-> live, fault |-> fault, calls |-> r.calls,
                        repos |-> r.repos, err |-> r.err,
                        deleted |-> r.deleted]
            /\ UNCHANGED <<brokerVars, containers, codecVars, nodeVars, appVars>>

(***************************************************************************)
(* THE SCALE HANDLER (applicationsRouter.scale, system.go lines 608-651)   *)
(*                                                                         *)
(* The form value is a string of characters; what FindApplications,        *)
(* ScaleApplication and StartContainers return are inputs.                 *)
(***************************************************************************)
\* the length of the form value "scale", at most
MaxScaleLen == 3

ScaleChars == {"+", "-", "0", "1", "2", "x"}
ScaleValues == UNION {[1..n -> ScaleChars] : n \in 0..MaxScaleLen}

DecimalDigits == <<"0", "1", "2">>
IsDigit(c) == \E d \in 1..Len(DecimalDigits) : DecimalDigits[d] = c
DigitOf(c) == (CHOOSE d \in 1..Len(DecimalDigits) : DecimalDigits[d] = c) - 1

RECURSIVE DigitsValue(_)
DigitsValue(s) ==
    IF s = <<>> THEN 0
    ELSE DigitsValue(SubSeq(s, 1, Len(s) - 1)) * 10 + DigitOf(s[Len(s)])

\* strings.HasPrefix(s, c) for a prefix of one character
HasPrefix(s, c) == s # <<>> /\ s[1] = c

\* strconv.Atoi: an optional sign, then one decimal digit or more
Atoi(s) ==
    LET digits == IF HasPrefix(s, "+") \/ HasPrefix(s, "-") THEN Tail(s) ELSE s
    IN  IF digits = <<>> \/ \E i \in 1..Len(digits) : ~IsDigit(digits[i])
        THEN [err |-> TRUE, num |-> 0]
        ELSE [err |-> FALSE,
              num |-> IF HasPrefix(s, "-") THEN 0 - DigitsValue(digits)
                      ELSE DigitsValue(digits)]

\* lines 631-635: the number of replicas asked for, from those there are
Scaled_absolute(up, count, num) == num
Scaled(up, count, num) == IF up THEN count + num ELSE count - num

ScaleCall(fn, num, cs) == [fn |-> fn, num |-> num, cs |-> cs]

\* the containers ScaleApplication may return
ScaleContainers == {"c1", "c2"}

\* lines 608-651: found = what FindApplications returns (an error, or that
\* many containers), scaled = what ScaleApplication returns, startErr =
\* whether StartContainers fails
ScaleHandler(scaling, found, scaled, startErr) ==
    LET up     == HasPrefix(scaling, "+")
        down   == ~up /\ HasPrefix(scaling, "-")
        parsed == Atoi(IF up \/ down THEN Tail(scaling) ELSE scaling)
        calls1 == IF up \/ down
                  THEN <<ScaleCall("FindApplications", 0, {})>> ELSE <<>>
        num    == IF up \/ down THEN Scaled(up, found.count, parsed.num)
                  ELSE parsed.num
        calls2 == Append(calls1, ScaleCall("ScaleApplication", num, {}))
        calls3 == Append(calls2, ScaleCall("StartContainers", 0, scaled.cs))
    IN  IF parsed.err
        THEN [calls |-> <<>>,
              response |-> BadRequest("err"), ret |-> "nil"]
        ELSE IF (up \/ down) /\ found.err
        THEN [calls |-> calls1,
              response |-> NoResponse, ret |-> "FindApplications"]
        ELSE IF scaled.err
        THEN [calls |-> calls2,
              response |-> NoResponse, ret |-> "ScaleApplication"]
        ELSE [calls |-> calls3,
              response |-> IF startErr THEN LogRecord("error")
                           ELSE LogRecord("log"),
              ret |-> "nil"]

\* a request to scale an application arrives, with its form value
ApiScaleRequest ==
    \E scaling \in ScaleValues :
        /\ last.op = "none"
        /\ last' = [op |-> "scaleRequest", scaling |-> scaling]
        /\ UNCHANGED <<brokerVars, containers, codecVars, nodeVars, appVars>>

\* the handler runs
ApiScale ==
    \E found \in {[err |-> TRUE, count |-> 0]}
                 \cup {[err |-> FALSE, count |-> n] : n \in 0..2},
       scaled \in {[err |-> TRUE, cs |-> {}]}
                  \cup {[err |-> FALSE, cs |-> c] : c \in SUBSET ScaleContainers},
       startErr \in BOOLEAN :
        LET r == ScaleHandler(last.scaling, found, scaled, startErr)
        IN  /\ last.op = "scaleRequest"
            /\ last' = [op |-> "scale", scaling |-> last.scaling,
                        found |-> found,
                        scaled |-> scaled, startErr |-> startErr,
                        calls |-> r.calls, response |-> r.response,
                        ret |-> r.ret]
            /\ UNCHANGED <<brokerVars, containers, codecVars, nodeVars, appVars>>

\* Copy with a destination that fails or a source that fails, over all that
\* was written or up to the end of the header of the last frame
CodecCopyFaulty ==
    \E dst \in DstConfigs \cup FaultyDstConfigs,
       cut \in {Len(wire), Len(wire) - LastChunkLen + stdWriterPrefixLen},
       chunk \in {1, Len(wire) + 1},
       errAt \in {NoReadError, Len(wire) - LastChunkLen, Len(wire) - 1,
                  Len(wire)} :
        /\ last.op # "Copy"
        /\ cut \in 0..Len(wire)
        /\ errAt \in NoReadError..cut
        /\ dst \in FaultyDstConfigs => errAt = NoReadError
        /\ CopyFrom(dst, cut, chunk, FALSE, errAt)
        /\ UNCHANGED <<brokerVars, containers, nodeVars, appVars>>

\* a run starts
ExecCall ==
    \E caller \in ExecCallers \cup {"pumpStreams"},
       stdin \in BOOLEAN, stdout \in BOOLEAN, stderr \in BOOLEAN,
       faults \in ConnectFaults, precancelled \in BOOLEAN :
        /\ ExecStart(caller, stdin, stdout, stderr, faults, precancelled)
        /\ UNCHANGED <<brokerVars, containers, codecVars, last, cg, appVars>>

ExecOutDrain ==
    \E ch \in StderrChars :
        /\ OutDrain(ch)
        /\ UNCHANGED <<brokerVars, containers, codecVars, last, cg, appVars>>

ExecOutFinish ==
    \E err \in {NilErr, PlainErr("stdCopy")} :
        /\ OutFinish(err)
        /\ UNCHANGED <<brokerVars, containers, codecVars, last, cg, appVars>>

ExecStdinDrain == StdinDrain /\ UNCHANGED <<brokerVars, containers, codecVars, last, cg, appVars>>

ExecCancel == Cancel /\ UNCHANGED <<brokerVars, containers, codecVars, last, cg, appVars>>

\* the select statements of pumpStreams take one of their ready cases
PumpSelect ==
    /\ SelectReceive \/ SelectStdinDone \/ SelectCtxDone
    /\ UNCHANGED <<brokerVars, containers, codecVars, last, cg, appVars>>

ExecInspectAny ==
    \E ok \in BOOLEAN, code \in ExitCodes :
        /\ ExecInspect(ok, code)
        /\ UNCHANGED <<brokerVars, containers, codecVars, last, cg, appVars>>

\* a call of Cgroup.create or Cgroup.delete, by the single writer
CgCall ==
    \E op \in {"create", "delete"}, uuid \in Uuids :
        /\ ~Running(cg.procs[1])
        /\ cg' = CgStart(cg, 1, op, uuid)
        /\ UNCHANGED <<brokerVars, containers, codecVars, last, ex, appVars>>

\* the next step of the operation
CgStep ==
    /\ Running(cg.procs[1])
    /\ cg' = CgStepResult(cg, 1)
    /\ UNCHANGED <<brokerVars, containers, codecVars, last, ex, appVars>>

\* the operation stops where it is
CgStop ==
    \E k \in StopChoices(cg, 1) :
        /\ Running(cg.procs[1])
        /\ cg.aborts < MaxAborts
        /\ cg' = CgStopResult(cg, 1, k)
        /\ UNCHANGED <<brokerVars, containers, codecVars, last, ex, appVars>>

\* the calls of a sequential series, at most
MaxCgCalls == 4

\* the calls made so far in a sequential series
CgCalls == IF last.op = "Cgroup" THEN last.calls ELSE <<>>

\* a call of Cgroup.create or Cgroup.delete that runs to its end, in a
\* series of calls that run one after the other
CgSequentialCall ==
    \E op \in {"create", "delete"}, uuid \in Uuids :
        /\ last.op \in {"none", "Cgroup"}
        /\ Len(CgCalls) < MaxCgCalls
        /\ cg' = RunToEnd(CgStart(cg, 1, op, uuid), 1)
        /\ last' = [op |-> "Cgroup",
                    calls |-> Append(CgCalls, [op |-> op, uuid |-> uuid])]
        /\ UNCHANGED <<brokerVars, containers, codecVars, ex, appVars>>

\* before two operations run concurrently: operations that ran one by one
CgSetup ==
    \E op \in {"create", "delete"}, uuid \in Uuids :
        /\ ~cg.forked
        /\ cg.setups < MaxSetups
        /\ cg' = [RunToEnd(CgStart(cg, 1, op, uuid), 1)
                     EXCEPT !.setups = @ + 1, !.procs[1] = IdleProc]
        /\ UNCHANGED <<brokerVars, containers, codecVars, last, ex, appVars>>

\* before a create that is followed step by step: operations that ran one
\* by one
CgPrepare ==
    /\ cg.procs[1].op = "none"
    /\ CgSetup

\* a call of Cgroup.create, followed step by step
CgCreateCall ==
    \E uuid \in Uuids :
        /\ cg.procs[1].op = "none"
        /\ cg' = CgStart(cg, 1, "create", uuid)
        /\ UNCHANGED <<brokerVars, containers, codecVars, last, ex, appVars>>

\* two operations for two different identities start
CgFork ==
    \E op1 \in {"create", "delete"}, op2 \in {"create", "delete"},
       u1 \in Uuids, u2 \in Uuids :
        /\ ~cg.forked
        /\ u1 # u2
        /\ cg' = [CgStart(CgStart(cg, 1, op1, u1), 2, op2, u2)
                     EXCEPT !.forked = TRUE]
        /\ UNCHANGED <<brokerVars, containers, codecVars, last, ex, appVars>>

\* one of the two takes its next step
CgConcurrentStep ==
    \E p \in CgProcs :
        /\ cg.forked
        /\ Running(cg.procs[p])
        /\ cg' = CgStepResult(cg, p)
        /\ UNCHANGED <<brokerVars, containers, codecVars, last, ex, appVars>>

\* ContainerPlugin.create: what the abstract steps do is an input
PluginCreate ==
    \E cu \in StepOutcomes, ch \in StepOutcomes, du \in StepOutcomes,
       userMade \in BOOLEAN, homeMade \in BOOLEAN :
        /\ pl' = PluginCreateResult(pl, cu, userMade, ch, homeMade, du)
        /\ UNCHANGED <<brokerVars, containers, codecVars, last, nodeVars, api>>

PluginStart ==
    /\ pl.user
    /\ pl' = PluginStartResult(pl)
    /\ UNCHANGED <<brokerVars, containers, codecVars, last, nodeVars, api>>

PluginDestroy ==
    \E kp \in StepOutcomes, du \in StepOutcomes :
        /\ pl' = PluginDestroyResult(pl, kp, du)
        /\ UNCHANGED <<brokerVars, containers, codecVars, last, nodeVars, api>>

\* getIpAddress, a pure function: two calls are made, to compare them
PluginGetIpAddress ==
    \E uid \in IpUids, host_id \in IpHostIds, cfg \in IpConfigs :
        /\ ~pl.prev.called
        /\ pl' = [pl EXCEPT !.op = "getIpAddress", !.steps = <<>>,
                            !.thrown = GetIpAddress(uid, host_id, cfg).thrown,
                            !.prev = pl.cur,
                            !.cur = GetIpAddress(uid, host_id, cfg)]
        /\ UNCHANGED <<brokerVars, containers, codecVars, last, nodeVars, api>>

\* POST /applications.  The handler keeps nothing between two requests:
\* one request is handled
ApiCreate ==
    \E name \in Names, framework \in Frameworks,
       faults \in {{}} \cup {{c} : c \in CreateHandlerCalls} :
        /\ ~api.create.called
        /\ api' = [api EXCEPT !.create = CreateHandler(name, framework, faults)]
        /\ UNCHANGED <<brokerVars, containers, codecVars, last, nodeVars, pl>>

\* GET /applications/status: the handler starts
ApiAllStatus ==
    \E apps \in SUBSET AllApps, refreshOk \in BOOLEAN :
        /\ api.st.phase # "waiting"
        /\ api' = [api EXCEPT !.st = AllStatusStart(apps, refreshOk)]
        /\ UNCHANGED <<brokerVars, containers, codecVars, last, nodeVars, pl>>

\* a goroutine's query returns
ApiQuery ==
    \E n \in AllApps, ok \in BOOLEAN :
        /\ api.st.pc[n] = "spawned"
        /\ api' = [api EXCEPT !.st = Queried(api.st, n, ok)]
        /\ UNCHANGED <<brokerVars, containers, codecVars, last, nodeVars, pl>>

ApiLock ==
    \E n \in AllApps :
        /\ api.st.pc[n] = "lock"
        /\ api.st.mu = MuFree
        /\ api' = [api EXCEPT !.st = Locked(api.st, n)]
        /\ UNCHANGED <<brokerVars, containers, codecVars, last, nodeVars, pl>>

ApiStore ==
    \E n \in AllApps :
        /\ api.st.pc[n] = "store"
        /\ api' = [api EXCEPT !.st = Stored(api.st, n)]
        /\ UNCHANGED <<brokerVars, containers, codecVars, last, nodeVars, pl>>

ApiUnlock ==
    \E n \in AllApps :
        /\ api.st.pc[n] = "unlock"
        /\ api' = [api EXCEPT !.st = Unlocked(api.st, n)]
        /\ UNCHANGED <<brokerVars, containers, codecVars, last, nodeVars, pl>>

\* wg.Wait() returns and the response is written
ApiRespond ==
    \E writeOk \in BOOLEAN :
        /\ api.st.phase = "waiting"
        /\ WaitReady(api.st)
        /\ api' = [api EXCEPT !.st = Responded(api.st, writeOk)]
        /\ UNCHANGED <<brokerVars, containers, codecVars, last, nodeVars, pl>>

NextBroker == BrokerCreateUser \/ BrokerRemoveUser \/ BrokerCreateContainers
NextEngine == EngineCreateAny \/ EngineDestroyAny
NextCodec  == CodecWrite \/ CodecCopy
NextCodecFaults == CodecWrite \/ CodecCopyFaulty
NextExec   == ExecCall \/ ExecOutDrain \/ ExecOutFinish \/ ExecStdinDrain
              \/ ExecCancel \/ PumpSelect \/ ExecInspectAny
NextCgroup == CgCall \/ CgStep \/ CgStop
NextCgroupConcurrent == CgSetup \/ CgFork \/ CgConcurrentStep
NextCgroupSequential == CgSequentialCall
NextCgroupCreate == CgPrepare \/ CgCreateCall \/ CgStep \/ CgStop
NextBitbucket == BbCreateRepo \/ BbRemoveNamespace
NextScale == ApiScaleRequest \/ ApiScale
NextPlugin == PluginCreate \/ PluginStart \/ PluginDestroy
NextIpAddress == PluginGetIpAddress
NextCreateApp == ApiCreate
NextAllStatus == ApiAllStatus \/ ApiQuery \/ ApiLock \/ ApiStore \/ ApiUnlock
                 \/ ApiRespond
Next == NextBroker \/ NextEngine \/ NextCodec \/ NextCodecFaults \/ NextExec
        \/ NextCgroup \/ NextCgroupSequential \/ NextCgroupCreate
        \/ NextBitbucket
        \/ NextCgroupConcurrent \/ NextPlugin \/ NextIpAddress
        \/ NextCreateApp \/ NextAllStatus \/ NextScale

SpecBroker == Init /\ [][NextBroker]_vars
SpecEngine == Init /\ [][NextEngine]_vars
SpecCodec  == Init /\ [][NextCodec]_vars
\* the codec with destinations and sources that fail
SpecCodecFaults == Init /\ [][NextCodecFaults]_vars
SpecExec   == Init /\ [][NextExec]_vars
\* one writer, whose operations may stop anywhere
SpecCgroup == Init /\ [][NextCgroup]_vars
\* two writers at once, after some operations of one writer
SpecCgroupConcurrent == Init /\ [][NextCgroupConcurrent]_vars
\* one create, step by step, after some operations that ran to their end
SpecCgroupCreate == Init /\ [][NextCgroupCreate]_vars
\* a series of whole create and delete calls, with the calls made so far
SpecCgroupSequential == Init /\ [][NextCgroupSequential]_vars
\* the caller's goroutine runs when a case of its select is ready
SpecExecFair == SpecExec /\ WF_vars(PumpSelect)
\* one call of the Bitbucket client
SpecBitbucket == Init /\ [][NextBitbucket]_vars
SpecPlugin == Init /\ [][NextPlugin]_vars
SpecIpAddress == Init /\ [][NextIpAddress]_vars
SpecCreateApp == Init /\ [][NextCreateApp]_vars
SpecAllStatus == Init /\ [][NextAllStatus]_vars
\* one request to scale an application
SpecScale == Init /\ [][NextScale]_vars
Spec == Init /\ [][Next]_vars

(***************************************************************************)
(* PROPERTIES OF THE BROKER (checked under SpecBroker)                     *)
(***************************************************************************)
LastCalls(name) == SelectSeq(last.calls, LAMBDA c : c.call = name)
Attempted(name) == LastCalls(name) # <<>>
Failed(name)    == \E i \in 1..Len(last.calls) :
                       last.calls[i].call = name /\ ~last.calls[i].ok
InErr(call)     == \E i \in 1..Len(last.err) : last.err[i] = call

\* CreateUser ran for a user with a namespace and the SCM refused the namespace
ScmCreateFailed ==
    /\ last.op = "CreateUser"
    /\ last.ns # NoNamespace
    /\ Failed("SCM.CreateNamespace")

C2_EmptyNamespaceNoScmCall ==
    (last.op = "CreateUser" /\ last.ns = NoNamespace) =>
        /\ Len(last.calls) = 1
        /\ last.calls[1].call = "Users.Create"
        /\ last.calls[1].arg = last.user
        /\ ~Attempted("SCM.CreateNamespace")
        /\ scmNamespaces = last.preScm
        /\ (last.calls[1].ok => userdb[last.user] = NoNamespace /\ last.err = <<>>)

\* a user without namespace is created while the SCM holds namespaces
C2_Witness ==
    /\ last.op = "CreateUser"
    /\ last.ns = NoNamespace
    /\ last.err = <<>>
    /\ userdb[last.user] = NoNamespace
    /\ scmNamespaces # {}

\* RemoveUser located a user that has a namespace
RemovedWithNamespace ==
    /\ last.op = "RemoveUser"
    /\ ~Failed("Users.Find")
    /\ last.ns # NoNamespace

\* every teardown step of RemoveUser was attempted: the destroy of each
\* container found, the SCM removal, the hub removal, the record removal
AllStepsAttempted ==
    /\ Attempted("FindInNamespace")
    /\ ~Failed("FindInNamespace") =>
          \A c \in last.owned :
              \E i \in 1..Len(last.calls) :
                  last.calls[i].call = "Destroy" /\ last.calls[i].target = c
    /\ Len(LastCalls("SCM.RemoveNamespace")) = 1
    /\ Len(LastCalls("Hub.RemoveNamespace")) = 1
    /\ Len(LastCalls("Users.Remove")) = 1

TeardownCalls ==
    SelectSeq(last.calls, LAMBDA c : c.call # "Users.Find")

\* C3 as stated: RemoveUser attempts every teardown step whichever earlier
\* step failed, and every failure of those steps is part of the aggregate
\* error it returns.
C3_EveryFailureAggregated ==
    RemovedWithNamespace =>
        /\ AllStepsAttempted
        /\ \A i \in 1..Len(TeardownCalls) :
              ~TeardownCalls[i].ok => InErr(TeardownCalls[i])

\* C3 amended: RemoveUser attempts every teardown step whichever earlier
\* step failed (the destroy of each container that FindInNamespace returned),
\* and the aggregate error holds, in call order, exactly the failures of
\* FindInNamespace, of the destroys, of the SCM removal and of the record
\* removal; the outcome of the hub removal is discarded.
C3_FailuresAggregatedButHub ==
    RemovedWithNamespace =>
        /\ AllStepsAttempted
        /\ last.err = SelectSeq(TeardownCalls,
                                LAMBDA c : ~c.ok /\ c.call # "Hub.RemoveNamespace")

\* two containers, the first destroy fails, the SCM, the hub and the record
\* removal fail too, and yet each step was attempted
C3_Witness ==
    /\ RemovedWithNamespace
    /\ Cardinality(last.owned) = 2
    /\ Len(LastCalls("Destroy")) = 2
    /\ ~LastCalls("Destroy")[1].ok
    /\ LastCalls("Destroy")[2].ok
    /\ Failed("SCM.RemoveNamespace")
    /\ Failed("Hub.RemoveNamespace")
    /\ Failed("Users.Remove")
    /\ Len(last.err) = 3

\* RemoveUser ran on a user that owns containers and the SCM removal failed
ScmRemoveFailed ==
    /\ last.op = "RemoveUser"
    /\ last.owned # {}
    /\ Failed("SCM.RemoveNamespace")

Frames == SelectSeq(wlog, LAMBDA e : e.instantiated /\ e.p # NilPayload)

\* the offset on the wire at which frame i ends (frame 0: the start)
RECURSIVE FrameEnd(_)
FrameEnd(i) == IF i = 0 THEN 0 ELSE FrameEnd(i - 1) + 8 + Len(Frames[i].p)

\* the destination the frame layout assigns to a stream type
SinkOfType(t) ==
    IF t \in {Stdin, Stdout} THEN "dstout"
    ELSE IF t = Stderr THEN "dsterr"
    ELSE IF t = Data THEN "data"
    ELSE "none"

\* the payloads of the first n frames that go to sink s, concatenated
RECURSIVE Delivered(_, _)
Delivered(s, n) ==
    IF n = 0 THEN <<>>
    ELSE Delivered(s, n - 1)
         \o (IF SinkOfType(Frames[n].prefix) = s THEN Frames[n].p ELSE <<>>)

\* the payload bytes of the first n frames
RECURSIVE PayloadBytes(_)
PayloadBytes(n) == IF n = 0 THEN 0 ELSE PayloadBytes(n - 1) + Len(Frames[n].p)

\* the writes Copy makes for the first n frames, in order
RECURSIVE Dispatches(_, _)
Dispatches(dst, n) ==
    IF n = 0 THEN <<>>
    ELSE Dispatches(dst, n - 1)
         \o (IF dst[SinkOfType(Frames[n].prefix)] = "nil" THEN <<>>
             ELSE <<[sink |-> SinkOfType(Frames[n].prefix), payload |-> Frames[n].p]>>)

\* the number of frames that lie entirely within the first `cut` bytes
CompleteFrames(cut) ==
    Cardinality({i \in 1..Len(Frames) : FrameEnd(i) <= cut})

AllWriters(dst) == \A s \in DOMAIN dst : dst[s] = "writer"

\* C5: round trip.  When every Write was made through a writer of type
\* Stdout, Stderr or Data and Copy reads all the bytes produced, Copy returns
\* no error and each destination receives exactly the concatenation, in
\* order, of the payloads written with its type (so nothing of another
\* type), for every way the source splits the bytes into reads.
C5_RoundTrip ==
    (/\ last.op = "Copy"
     /\ last.cut = Len(wire)
     /\ AllWriters(last.dst)
     /\ \A i \in 1..Len(wlog) :
            wlog[i].instantiated /\ wlog[i].prefix \in {Stdout, Stderr, Data})
    =>  /\ last.err = "nil"
        /\ last.sinks.dstout = Delivered("dstout", Len(Frames))
        /\ last.sinks.dsterr = Delivered("dsterr", Len(Frames))
        /\ last.sinks.data = Delivered("data", Len(Frames))
        /\ \A t \in {Stdout, Stderr, Data} :
              (\A i \in 1..Len(wlog) : wlog[i].prefix = t) =>
                  /\ last.sinks[SinkOfType(t)] = Concat([i \in 1..Len(Frames) |-> Frames[i].p])
                  /\ \A s \in DOMAIN last.sinks :
                        s # SinkOfType(t) => last.sinks[s] = <<>>

\* two Stderr payloads, the first longer than the starting buffer, read three
\* bytes at a time, arrive on dsterr
C5_Witness ==
    /\ last.op = "Copy"
    /\ last.cut = Len(wire)
    /\ last.chunk = 3
    /\ AllWriters(last.dst)
    /\ Len(wlog) = 2
    /\ \A i \in 1..2 : wlog[i].instantiated /\ wlog[i].prefix = Stderr
    /\ Len(wlog[1].p) > startingBufLen
    /\ Len(wlog[2].p) = 1
    /\ last.sinks.dsterr = wlog[1].p \o wlog[2].p
    /\ last.bufLen > startingBufLen

\* C6: the frame that Write emits for a non-nil payload p is 8 + len(p)
\* bytes: the stream type, three zero bytes, len(p) as a big-endian unsigned
\* 32-bit integer, then the bytes of p.
C6_FrameLayout ==
    \A i \in 1..Len(wlog) :
        (wlog[i].instantiated /\ wlog[i].p # NilPayload) =>
            /\ Len(wlog[i].chunks) = 1
            /\ LET f == wlog[i].chunks[1]
                   p == wlog[i].p
               IN  /\ Len(f) = 8 + Len(p)
                   /\ f[1] = wlog[i].prefix
                   /\ f[2] = 0 /\ f[3] = 0 /\ f[4] = 0
                   /\ \A j \in 5..8 : f[j] \in 0..255
                   /\ f[5] * 16777216 + f[6] * 65536 + f[7] * 256 + f[8] = Len(p)
                   /\ \A j \in 1..Len(p) : f[8 + j] = p[j]

\* a Data frame with the longest payload was written
C6_Witness ==
    /\ last.op = "Write"
    /\ last.instantiated
    /\ last.prefix = Data
    /\ Len(last.p) = startingBufLen + 1
    /\ Len(wire) >= 8 + Len(last.p)
    /\ wire[Len(wire) - Len(last.p)] = Len(last.p)

\* the source ends inside a frame: inside its header or inside its payload
EndsInsideFrame ==
    /\ last.op = "Copy"
    /\ \A i \in 1..Len(Frames) : FrameEnd(i) # last.cut
    /\ last.cut # 0

\* the frames whose header lies within the input and names no known type
UnknownTypeFrames ==
    {i \in 1..Len(Frames) :
        /\ FrameEnd(i - 1) + 8 <= last.cut
        /\ Frames[i].prefix \notin {Stdin, Stdout, Stderr, Data}}

\* what C7 says Copy returns and delivers: nil, the payload bytes of the
\* frames completed before the end, and nothing of the incomplete frame
CleanEnd ==
    LET n == CompleteFrames(last.cut)
    IN  /\ last.err = "nil"
        /\ last.written = PayloadBytes(n)
        /\ last.dispatched = Dispatches(last.dst, n)
        /\ \A s \in DOMAIN last.sinks :
              last.sinks[s] = IF last.dst[s] = "nil" THEN <<>> ELSE Delivered(s, n)

\* C7 as stated: when the input ends inside a header, or after a header and
\* inside its payload (the frames before it being complete and of a known
\* type), Copy returns nil and the number of payload bytes of the frames
\* completed before, and writes no byte of the incomplete frame.
C7_TruncatedInputIsCleanEnd ==
    (/\ EndsInsideFrame
     /\ \A i \in 1..CompleteFrames(last.cut) :
            Frames[i].prefix \in {Stdin, Stdout, Stderr, Data})
    => CleanEnd

\* C7 amended: the same, provided that the incomplete frame, when its header
\* was read in full, is of a known type: Copy checks the type of a header
\* before it reads the payload, and fails on an unknown one.
C7_TruncatedKnownFrameIsCleanEnd ==
    (EndsInsideFrame /\ UnknownTypeFrames = {}) => CleanEnd

\* the input ends inside the payload of the second frame, after its header;
\* the first frame was delivered
C7_Witness ==
    /\ EndsInsideFrame
    /\ Len(Frames) = 2
    /\ \A i \in 1..2 : Frames[i].prefix = Stdout
    /\ last.cut > FrameEnd(1) + 8
    /\ last.err = "nil"
    /\ last.written = Len(Frames[1].p)
    /\ last.written > 0
    /\ last.sinks.dstout = Frames[1].p

FirstUnknown == CHOOSE i \in UnknownTypeFrames : \A j \in UnknownTypeFrames : i <= j

\* C8: Copy writes each complete frame to the destination of its type
\* (Stdin and Stdout to dstout, Stderr to dsterr, Data to data), in order; at
\* the first frame of an unknown type it returns an error, having written
\* the frames before it and nothing of that frame or of a later one.
C8_RoutedByType ==
    last.op = "Copy" =>
        IF UnknownTypeFrames = {}
        THEN /\ last.err = "nil"
             /\ last.dispatched = Dispatches(last.dst, CompleteFrames(last.cut))
        ELSE /\ last.err # "nil"
             /\ last.dispatched = Dispatches(last.dst, FirstUnknown - 1)

\* a Stdin frame is followed by a frame of an unknown type and by nothing
\* else: the first went to dstout, Copy failed
C8_Witness ==
    /\ last.op = "Copy"
    /\ Len(Frames) = 2
    /\ Frames[1].prefix = Stdin
    /\ Len(Frames[1].p) > 0
    /\ UnknownTypeFrames = {2}
    /\ last.err # "nil"
    /\ last.dispatched = <<[sink |-> "dstout", payload |-> Frames[1].p]>>

(***************************************************************************)
(* PROPERTIES OF THE CONTAINER ENGINE (checked under SpecEngine)           *)
(***************************************************************************)
\* the containers of a set that have the identity of the last Create
SameIdentity(cs) ==
    {c \in cs : /\ c.name = last.opts.Name
                /\ c.ns = last.opts.Namespace
                /\ c.plugin = last.opts.Plugin
                /\ c.service = last.opts.ServiceName}

\* the last operation was a Create with a name, a namespace and a plugin
ValidCreate ==
    /\ last.op = "Create"
    /\ last.opts.Name # ""
    /\ last.opts.Namespace # ""
    /\ last.opts.Plugin # NilPlugin

\* C9: a Create with Scaling = M for an identity that has K containers,
\* M > K >= 0 (K = 0: the first Create, M >= 1), succeeds and returns exactly
\* M - K new containers, all of that identity; every container that existed
\* is still there, nothing else was added, and the identity has M containers
\* afterwards.
C9_ScaleUpCreatesTheDifference ==
    (ValidCreate /\ last.opts.Scaling > Cardinality(SameIdentity(last.pre)))
    =>  /\ last.err = "nil"
        /\ Cardinality(last.new)
             = last.opts.Scaling - Cardinality(SameIdentity(last.pre))
        /\ last.new \cap last.pre = {}
        /\ SameIdentity(last.new) = last.new
        /\ containers = last.pre \cup last.new
        /\ Cardinality(SameIdentity(containers)) = last.opts.Scaling

\* an identity with one container is scaled to three: two new containers
C9_Witness ==
    /\ ValidCreate
    /\ Cardinality(SameIdentity(last.pre)) = 1
    /\ last.opts.Scaling = 3
    /\ Cardinality(last.new) = 2
    /\ Cardinality(SameIdentity(containers)) = 3
    /\ last.pre \ SameIdentity(last.pre) # {}

\* C10: a Create for an identity that has K >= 1 containers with a Scaling
\* value less than or equal to K fails, returns no container and leaves the
\* set of containers as it was.
C10_NoScaleDownThroughCreate ==
    (/\ ValidCreate
     /\ Cardinality(SameIdentity(last.pre)) >= 1
     /\ last.opts.Scaling <= Cardinality(SameIdentity(last.pre)))
    =>  /\ last.err # "nil"
        /\ last.new = {}
        /\ containers = last.pre

\* an identity with three containers is asked to scale to two
C10_Witness ==
    /\ ValidCreate
    /\ Cardinality(SameIdentity(last.pre)) = 3
    /\ last.opts.Scaling = 2
    /\ last.err # "nil"
    /\ containers = last.pre

\* C11: a Create with a Scaling value that is zero or negative (and a plugin)
\* returns an error, returns no container and leaves the set of containers
\* as it was.
C11_NonPositiveScalingRejected ==
    (/\ last.op = "Create"
     /\ last.opts.Plugin # NilPlugin
     /\ last.opts.Scaling <= 0)
    =>  /\ last.err # "nil"
        /\ last.new = {}
        /\ containers = last.pre

\* an identity without containers is created with Scaling -1, while other
\* containers exist
C11_Witness ==
    /\ ValidCreate
    /\ last.opts.Scaling = -1
    /\ SameIdentity(last.pre) = {}
    /\ last.pre # {}
    /\ last.err # "nil"
    /\ containers = last.pre

\* C12: a Create with an empty Name or an empty Namespace (and a plugin)
\* returns an error, returns no container and leaves the set of containers
\* as it was.
C12_MissingNameOrNamespaceRejected ==
    (/\ last.op = "Create"
     /\ last.opts.Plugin # NilPlugin
     /\ (last.opts.Name = "" \/ last.opts.Namespace = ""))
    =>  /\ last.err # "nil"
        /\ last.new = {}
        /\ containers = last.pre

\* a Create without a namespace, otherwise valid
C12_Witness ==
    /\ last.op = "Create"
    /\ last.opts.Name = "test"
    /\ last.opts.Namespace = ""
    /\ last.opts.Plugin = "mock"
    /\ last.opts.Scaling = 1
    /\ last.err # "nil"
    /\ last.pre # {}
    /\ containers = last.pre

\* the containers of a set that belong to the application and plugin of the
\* last Create, whatever their service name
SamePlugin(cs) ==
    {c \in cs : /\ c.name = last.opts.Name
                /\ c.ns = last.opts.Namespace
                /\ c.plugin = last.opts.Plugin}

\* the last Create asked for an unnamed container of a plugin that has one
SecondUnnamed ==
    /\ ValidCreate
    /\ last.opts.ServiceName = ""
    /\ SameIdentity(last.pre) # {}

\* the last Create asked for a named container of a plugin that has
\* containers under other service names only
DistinctServiceName ==
    /\ ValidCreate
    /\ last.opts.Scaling >= 1
    /\ SameIdentity(last.pre) = {}
    /\ SamePlugin(last.pre) # {}

\* C13 as stated: every second Create of an unnamed container fails
C13_SecondUnnamedAlwaysFails ==
    SecondUnnamed
    =>  /\ last.err # "nil"
        /\ containers = last.pre

\* C13: for one application and one plugin, a second Create with no
\* ServiceName whose Scaling is not above the number of unnamed containers
\* that exist (the same options again) fails and leaves every container in
\* place; a Create under a ServiceName that no container of the plugin has
\* succeeds, and its containers exist together with those of the other
\* service names.
C13_OneUnnamedManyNamed ==
    /\ (SecondUnnamed /\ last.opts.Scaling <= Cardinality(SameIdentity(last.pre)))
        =>  /\ last.err # "nil"
            /\ last.new = {}
            /\ containers = last.pre
    /\ DistinctServiceName
        =>  /\ last.err = "nil"
            /\ last.new # {}
            /\ SameIdentity(last.new) = last.new
            /\ containers = last.pre \cup last.new
            /\ SamePlugin(last.pre) \subseteq containers

\* mockdb runs as db1 and db2 side by side, next to an unnamed mockdb that a
\* second Create could not duplicate
C13_Witness ==
    /\ ValidCreate
    /\ last.opts.Plugin = "mockdb"
    /\ last.opts.ServiceName = "db2"
    /\ last.err = "nil"
    /\ {c.service : c \in SamePlugin(containers)} = {"", "db1", "db2"}
    /\ Cardinality(SamePlugin(containers)) = 3

(***************************************************************************)
(* PROPERTIES OF COMMAND EXECUTION (checked under SpecExec, SpecExecFair)  *)
(***************************************************************************)
\* a call of Exec, ExecE or Subst has returned
ExecDone == ex.caller \in ExecCallers /\ ex.pc = "returned"

Inspected == \E i \in 1..Len(ex.calls) : ex.calls[i] = "ContainerExecInspect"

\* C14: when exec-create, attach, the pumping of the streams and the inspect
\* all succeed, Exec returns nil if and only if the inspected exit code is 0,
\* and otherwise a StatusError whose Code is the inspected exit code (and
\* whose Message is empty); the exit code is inspected only after pumpStreams
\* has returned.
C14_ExitCodeDecidesResult ==
    /\ Inspected => (ex.pump.returned /\ ex.pump.err = NilErr)
    /\ (ExecDone /\ Inspected /\ ex.inspectOk)
        =>  /\ ex.calls = ConnectCalls \o <<"pumpStreams", "ContainerExecInspect",
                                            "resp.Close">>
            /\ (ex.execErr = NilErr) <=> (ex.exitCode = 0)
            /\ ex.exitCode # 0
                => /\ ex.execErr.kind = "StatusError"
                   /\ ex.execErr.Code = ex.exitCode
                   /\ ex.execErr.Message = <<>>

\* Exec returns the exit code 137 of a command whose output was drained
C14_Witness ==
    /\ ExecDone
    /\ ex.caller = "Exec"
    /\ Inspected
    /\ ex.inspectOk
    /\ ex.exitCode = 137
    /\ ex.ret.kind = "StatusError"
    /\ ex.ret.Code = 137
    /\ ex.pump.via = "receiveStdout"

\* s is t with a run of CR and LF characters added at its end
TrailingCRLFRemoved(s, t) ==
    /\ Len(t) <= Len(s)
    /\ t = SubSeq(s, 1, Len(t))
    /\ \A i \in (Len(t) + 1)..Len(s) : s[i] \in {CR, LF}
    /\ t # <<>> => t[Len(t)] \notin {CR, LF}

\* C15: ExecE and Subst: when Exec returns a StatusError with an empty
\* Message, the error returned is a StatusError with the same Code whose
\* Message is the captured stderr text with its trailing CR/LF removed; any
\* other error (nil, or a StatusError that has a Message) is returned
\* unchanged.
C15_StatusErrorCarriesStderr ==
    (ex.caller \in WrappingCallers /\ ex.pc = "returned")
    =>  IF ex.execErr.kind = "StatusError" /\ ex.execErr.Message = <<>>
        THEN /\ ex.ret.kind = "StatusError"
             /\ ex.ret.Code = ex.execErr.Code
             /\ TrailingCRLFRemoved(ex.errbuf, ex.ret.Message)
        ELSE ex.ret = ex.execErr

\* ExecE gets exit code 1 and the stderr text "e", LF, CR: the message is "e"
C15_Witness ==
    /\ ex.caller = "ExecE"
    /\ ex.pc = "returned"
    /\ ex.execErr = StatusError(1, <<>>)
    /\ ex.errbuf = <<"e", LF, CR>>
    /\ ex.ret = StatusError(1, <<"e">>)

\* pumpStreams has returned from a call with at least one output sink
PumpDoneWithSinks == ex.pump.returned /\ HasSinks(ex)

\* C16: pumpStreams with at least one output sink returns only after the
\* output drain has finished or the context has been cancelled: the end of
\* stdin is never what ends the call; and a non-nil error of the output
\* drain that the call receives is the value it returns.
C16_WaitsForOutputOrCancel ==
    PumpDoneWithSinks
    =>  /\ ex.pump.outDone \/ ex.pump.cancelled
        /\ ex.pump.via # "stdinDone"
        /\ ex.pump.via = "receiveStdout" => ex.pump.outDone
        /\ ex.pump.via = "ctx.Done" => ex.pump.cancelled
        /\ (ex.received # <<>> /\ ex.received[1] # NilErr)
            => ex.pump.err = ex.received[1]

\* stdin was done first, the call went on waiting, and then received the
\* error of the output drain
C16_Witness ==
    /\ PumpDoneWithSinks
    /\ ex.caller = "pumpStreams"
    /\ ex.pump.stdinDone
    /\ ~ex.pump.cancelled
    /\ ex.received = <<PlainErr("stdCopy")>>
    /\ ex.ret = PlainErr("stdCopy")

\* what pumpStreams does with the connection
PumpConnCalls == {"Reader.Read", "Conn.Write", "CloseWrite"}

\* C17 as stated: a call whose context is cancelled returns nil
C17_CancelledCallReturnsNil ==
    (ex.pump.returned /\ ex.pump.cancelled) => ex.pump.err = NilErr

\* C17: once the context is cancelled the call stops waiting and returns,
\* whether stdin had finished or not: nil, or the error of the output drain
\* if that was ready too and the select received it; the only things
\* pumpStreams does with the connection are to read it, to write stdin to it
\* and to half-close it.
C17_CancelEndsTheWait ==
    /\ [](ex.pump.returned /\ ex.pump.cancelled
           => \/ ex.pump.err = NilErr
              \/ /\ ex.pump.via = "receiveStdout"
                 /\ ex.pump.err = ex.received[1])
    /\ [](ex.conn \subseteq PumpConnCalls)
    /\ ((Waiting /\ ex.cancelled) ~> ~Waiting)

\* the context is cancelled after stdin finished, while the output is still
\* being drained: the call returns nil
C17_Witness ==
    /\ ex.caller = "pumpStreams"
    /\ ex.pump.returned
    /\ ex.pump.via = "ctx.Done"
    /\ ex.pump.stdinDone
    /\ ~ex.pump.outDone
    /\ HasSinks(ex)
    /\ ex.ret = NilErr

(***************************************************************************)
(* PROPERTIES OF THE CGROUP MANAGER (checked under SpecCgroup and          *)
(* SpecCgroupConcurrent)                                                   *)
(***************************************************************************)
\* the file holds the rules row, the config row of the identity
HasRulesRow(content, uuid) ==
    \E i \in 1..Len(ReadLines(content)) : ReadLines(content)[i] = RulesRow(uuid)
HasConfigRow(content, uuid) ==
    \E i \in 1..Len(ReadLines(content)) :
        StartsWith(ReadLines(content)[i], ConfigPrefix(uuid))

\* nothing is left of the identity: no directory, no row in either file
NoTrace(uuid) ==
    /\ GroupDirs(uuid) \cap cg.dirs = {}
    /\ ~HasRulesRow(Content(cg, CGRULES), uuid)
    /\ ~HasConfigRow(Content(cg, CGCONFIG), uuid)

\* the single writer has returned from a delete
DeleteReturned ==
    /\ cg.procs[1].op = "delete"
    /\ cg.procs[1].pc = "done"
    /\ cg.procs[1].err # "stopped"

\* the call before it was a delete of the same identity, which returned
SecondDelete ==
    /\ DeleteReturned
    /\ cg.procs[1].prev = [op |-> "delete", uuid |-> cg.procs[1].uuid, err |-> ""]

\* what C18 says of a delete that has returned
DeleteIsClean ==
    /\ cg.procs[1].err = ""
    /\ NoTrace(cg.procs[1].uuid)
    /\ SecondDelete
        =>  /\ Content(cg, CGRULES) = cg.procs[1].pre.rules
            /\ Content(cg, CGCONFIG) = cg.procs[1].pre.config
            /\ cg.dirs = cg.procs[1].pre.dirs

\* C18: Cgroup.delete is idempotent: a delete for a uuid, and a second delete
\* for the same uuid, raise no error, and after either call no per-subsystem
\* directory of the uuid and no rules or config line of the uuid remains (the
\* second call changes nothing).
C18_DeleteIdempotent == DeleteReturned => DeleteIsClean

\* the same, as long as no operation has stopped before its end
C18_DeleteIdempotentIfNoneStopped ==
    (DeleteReturned /\ cg.aborts = 0) => DeleteIsClean

\* C19: while and after overwrite_with_safe_swap updates the rules file or
\* the config file, and also if the update stops at any step, the file at
\* the real path holds the complete content from before the update until
\* the move, and from the move on the complete content the update produces
\* (the lines that are kept, then the new line): never anything else.
C19_OldOrNewContent ==
    \A f \in CgFiles :
        LET s == cg.procs[1].swaps[f]
        IN  s.begun => Content(cg, f) = IF s.moved THEN s.intended ELSE s.pre

\* the same, as long as no operation has stopped before its end
C19_OldOrNewContentIfNoneStopped ==
    cg.aborts = 0 => C19_OldOrNewContent

\* the two concurrent operations have ended
BothEnded == cg.forked /\ \A p \in CgProcs : cg.procs[p].pc = "done"

\* the files show the operation of p: a created identity has its row in the
\* rules file and its block in the config file, a deleted identity has
\* neither
InFiles(p) ==
    LET pr == cg.procs[p]
    IN  IF pr.op = "create"
        THEN /\ HasRulesRow(Content(cg, CGRULES), pr.uuid)
             /\ HasConfigRow(Content(cg, CGCONFIG), pr.uuid)
        ELSE /\ ~HasRulesRow(Content(cg, CGRULES), pr.uuid)
             /\ ~HasConfigRow(Content(cg, CGCONFIG), pr.uuid)

\* the directories show the operation of p
InDirs(p) ==
    LET pr == cg.procs[p]
    IN  IF pr.op = "create" THEN GroupDirs(pr.uuid) \subseteq cg.dirs
        ELSE GroupDirs(pr.uuid) \cap cg.dirs = {}

PrefixRelated(u, v) == StartsWith(u, v) \/ StartsWith(v, u)

RECURSIVE FailureOf(_)
FailureOf(steps) ==
    IF steps = <<>> THEN Returns
    ELSE IF /\ Head(steps).call \in {"createUser", "createHomeDir"}
            /\ Head(steps).outcome # Returns
         THEN Head(steps).outcome
         ELSE FailureOf(Tail(steps))

CreateFailed == pl.op = "create" /\ FailureOf(pl.steps) # Returns

DeleteUserAttemptedLast ==
    /\ pl.steps # <<>>
    /\ pl.steps[Len(pl.steps)].call = "deleteUser"

\* C21: when createUser or createHomeDir fails, deleteUser is attempted
\* before create returns, create raises the original failure, and no OS
\* user is left.
C21_FailedCreateLeavesNoUser ==
    /\ pl.op = "create" =>
          /\ pl.steps[1].call = "createUser"
          /\ Len(pl.steps) >= 2 /\ pl.steps[1].outcome = Returns
                => pl.steps[2].call = "createHomeDir"
    /\ CreateFailed =>
          /\ DeleteUserAttemptedLast
          /\ pl.thrown = FailureOf(pl.steps)
          /\ ~pl.user

\* what create does do: a failure is raised as it is; after an IOException
\* deleteUser is attempted, and the user is left only if that failed
C21_IOExceptionRollsBack ==
    CreateFailed =>
        /\ pl.thrown = FailureOf(pl.steps)
        /\ FailureOf(pl.steps) = IOException =>
              /\ DeleteUserAttemptedLast
              /\ pl.user => pl.steps[Len(pl.steps)].outcome # Returns

\* C22: destroy attempts killProcs, then deleteUser whatever killProcs
\* did, and returns normally whatever the two steps did.
C22_DestroyNeverFails ==
    pl.op = "destroy" =>
        /\ CallsOf(pl.steps) = <<"killProcs", "deleteUser">>
        /\ pl.thrown = NothingThrown

\* both steps of a destroy failed, one with an unchecked exception
C22_Witness ==
    /\ pl.op = "destroy"
    /\ pl.steps = <<Step("killProcs", IOException),
                    Step("deleteUser", RuntimeException)>>
    /\ pl.pre.user /\ pl.user
    /\ pl.thrown = NothingThrown

\* a call with the default configuration, a uid below the wraparound and a
\* host identifier of 1..127
InNonWraparoundRange(c) ==
    /\ c.called
    /\ c.UID_WRAPAROUND = 65536 /\ c.IP_OFFSET = 1
    /\ c.uid >= 0 /\ c.uid < 65536
    /\ c.host_id >= 1 /\ c.host_id <= 127

\* C23: in the non-wraparound range of the default configuration the same
\* (uid, hostId) yields the same address, two distinct pairs yield
\* distinct addresses.
C23_DeterministicAndInjective ==
    InNonWraparoundRange(pl.cur) /\ InNonWraparoundRange(pl.prev) =>
        /\ pl.cur.thrown = NothingThrown /\ pl.prev.thrown = NothingThrown
        /\ Len(pl.cur.address) = 4 /\ Len(pl.prev.address) = 4
        /\ (pl.cur.uid = pl.prev.uid /\ pl.cur.host_id = pl.prev.host_id)
              <=> pl.cur.address = pl.prev.address

\* the two ends of the range: 127.127.255.255, then 127.0.0.1
C23_Witness ==
    /\ InNonWraparoundRange(pl.cur) /\ InNonWraparoundRange(pl.prev)
    /\ pl.prev.uid = 65535 /\ pl.prev.host_id = 127
    /\ pl.prev.address = <<127, 127, 255, 255>>
    /\ pl.cur.uid = 0 /\ pl.cur.host_id = 1
    /\ pl.cur.address = <<127, 0, 0, 1>>

\* 127.0.0.0 + ((uid mod wraparound) + offset) * 128 + hostId, in dotted-quad
\* notation
AddressWithOffset(c, offset) ==
    LET n == 2130706432 + ((c.uid % c.UID_WRAPAROUND) + offset) * 128
                 + c.host_id
    IN  <<n \div 16777216, (n \div 65536) % 256, (n \div 256) % 256, n % 256>>

AddressReturned(c) == c.called /\ c.thrown = NothingThrown

\* C24: the offset is 0 once the uid exceeds the wraparound or the offset
\* is >= 1000, the configured offset otherwise; the address is
\* 127.0.0.0 + ((uid mod wraparound) + offset) * 128 + hostId.
C24_OffsetZeroAboveWraparound ==
    AddressReturned(pl.cur) =>
        LET offset == IF pl.cur.uid > pl.cur.UID_WRAPAROUND
                         \/ pl.cur.IP_OFFSET >= 1000
                      THEN 0 ELSE pl.cur.IP_OFFSET
        IN  /\ pl.cur.ip_offset = offset
            /\ pl.cur.address = AddressWithOffset(pl.cur, offset)

\* C24 as amended: the offset is 0 when the uid is below the wraparound or
\* the offset is >= 1000, the configured offset otherwise; the address is
\* 127.0.0.0 + ((uid mod wraparound) + offset) * 128 + hostId.
C24_OffsetZeroBelowWraparound ==
    AddressReturned(pl.cur) =>
        LET offset == IF pl.cur.uid < pl.cur.UID_WRAPAROUND
                         \/ pl.cur.IP_OFFSET >= 1000
                      THEN 0 ELSE pl.cur.IP_OFFSET
        IN  /\ pl.cur.ip_offset = offset
            /\ pl.cur.address = AddressWithOffset(pl.cur, offset)

\* the first uid at the wraparound has the offset applied (127.0.0.129),
\* the uid before it has not
C24_Witness ==
    /\ AddressReturned(pl.cur) /\ AddressReturned(pl.prev)
    /\ pl.cur.UID_WRAPAROUND = 65536 /\ pl.cur.IP_OFFSET = 1
    /\ pl.cur.uid = 65536 /\ pl.cur.host_id = 1
    /\ pl.cur.ip_offset = 1
    /\ pl.cur.address = <<127, 0, 0, 129>>
    /\ pl.prev.UID_WRAPAROUND = 65536 /\ pl.prev.IP_OFFSET = 1
    /\ pl.prev.uid = 65535 /\ pl.prev.host_id = 1
    /\ pl.prev.ip_offset = 0
    /\ pl.prev.address = <<127, 127, 255, 129>>

(***************************************************************************)
(* PROPERTIES OF THE APPLICATION HANDLERS (checked under SpecAllStatus and *)
(* SpecCreateApp)                                                          *)
(***************************************************************************)
AllStatusResponded == api.st.phase = "returned" /\ api.st.ret # "Refresh"

\* C25: the all-applications status handler spawns one query per
\* application, responds only after every query has finished, does not
\* fail because a query failed, and the map, updated only under the mutex,
\* holds an entry for exactly the queries that succeeded.
C25_FanOutCollectsSuccesses ==
    /\ api.st.phase = "waiting" =>
          \A n \in AllApps : api.st.pc[n] # "none" <=> n \in api.st.apps
    /\ \A n \in AllApps : api.st.pc[n] \in {"store", "unlock"} => api.st.mu = n
    /\ AllStatusResponded =>
          /\ \A n \in api.st.apps : api.st.pc[n] = "done"
          /\ api.st.ret \in {"nil", "WriteJSON"}
          /\ api.st.response = api.st.succeeded
          /\ api.st.succeeded \subseteq api.st.apps

\* three applications, the query of the second failed: the response holds
\* the other two
C25_Witness ==
    /\ AllStatusResponded
    /\ api.st.apps = AllApps
    /\ api.st.succeeded = {"app1", "app3"}
    /\ api.st.response = {"app1", "app3"}
    /\ api.st.ret = "nil"

\* ^[a-z][a-z_0-9]*$
MatchesNamePattern(name) ==
    /\ Len(name) >= 1
    /\ name[1] \in {"a", "z"}
    /\ \A i \in 2..Len(name) : name[i] \in {"a", "z", "_", "0"}

\* C26: a request whose name does not match ^[a-z][a-z_0-9]*$ or whose
\* framework tag is empty gets a 400 response, and neither
\* CreateApplication nor StartContainers is called.
C26_InvalidRequestTouchesNothing ==
    /\ api.create.decoded
    /\ ~MatchesNamePattern(api.create.name) \/ api.create.framework = ""
    => /\ api.create.response.status = 400
       /\ api.create.calls = <<>>
       /\ api.create.ret = "nil"

\* a name that begins with a digit, with a framework: rejected
C26_Witness ==
    /\ api.create.decoded
    /\ api.create.name = <<"0", "a">>
    /\ api.create.framework = "php"
    /\ api.create.response = BadRequest("name")
    /\ api.create.calls = <<>>

(***************************************************************************)
(* THE ORDER OF THE BROKER'S STEPS (checked under SpecBroker)              *)
(***************************************************************************)
\* RemoveUser found the user, who has a namespace
RemoveUserInNamespace ==
    /\ last.op = "RemoveUser"
    /\ last.calls[1].ok
    /\ last.ns # NoNamespace

\* C27: RemoveUser for a user with a namespace makes its calls in a fixed
\* order: the destroy of every container found, then the SCM namespace
\* removal, then the hub namespace removal, then the removal of the user
\* record, which so never precedes the attempt on the SCM namespace.
C27_RemoveUserFixedOrder ==
    RemoveUserInNamespace =>
        LET calls == last.calls
            n     == Len(calls)
        IN  /\ n >= 5
            /\ calls[1].call = "Users.Find"
            /\ calls[2].call = "FindInNamespace"
            /\ \A i \in 3..(n - 3) : calls[i].call = "Destroy"
            /\ calls[n - 2].call = "SCM.RemoveNamespace"
            /\ calls[n - 1].call = "Hub.RemoveNamespace"
            /\ calls[n].call = "Users.Remove"
            /\ IF calls[2].ok
               THEN /\ {calls[i].target : i \in 3..(n - 3)} = last.owned
                    /\ n - 5 = Cardinality(last.owned)
               ELSE n = 5

\* two containers; the first destroy and the SCM removal failed, the user
\* record was removed last all the same
C27_Witness ==
    /\ RemoveUserInNamespace
    /\ Cardinality(last.owned) = 2
    /\ Len(last.calls) = 7
    /\ ~last.calls[3].ok
    /\ last.calls[4].ok
    /\ ~last.calls[5].ok
    /\ last.calls[7].call = "Users.Remove" /\ last.calls[7].ok
    /\ userdb[last.user] = Absent

\* C28: CreateUser calls Users.Create before any SCM call; when Users.Create
\* fails it returns that error, makes no SCM CreateNamespace call and
\* attempts no rollback.
C28_RecordBeforeNamespace ==
    last.op = "CreateUser" =>
        /\ last.calls[1].call = "Users.Create"
        /\ \A i \in 1..Len(last.calls) :
              last.calls[i].call = "SCM.CreateNamespace"
                 => i > 1 /\ last.calls[1].ok
        /\ ~last.calls[1].ok =>
              /\ last.calls = <<Call("Users.Create", last.user, FALSE)>>
              /\ last.err = last.calls
              /\ scmNamespaces = last.preScm

\* Users.Create failed for a user with a namespace that the SCM does not
\* have: nothing else was called
C28_Witness ==
    /\ last.op = "CreateUser"
    /\ ~last.calls[1].ok
    /\ last.ns # NoNamespace
    /\ last.ns \notin scmNamespaces
    /\ Len(last.calls) = 1
    /\ last.err # <<>>

(***************************************************************************)
(* ONE FRAME PER WRITE, ONE DISPATCH SEQUENCE PER INPUT (checked under     *)
(* SpecCodec)                                                              *)
(***************************************************************************)
\* the bytes that the calls before call i put on the wire
RECURSIVE WrittenBefore(_)
WrittenBefore(i) ==
    IF i <= 1 THEN 0
    ELSE WrittenBefore(i - 1) + Len(Concat(wlog[i - 1].chunks))

\* call i made one write on the sink, of one frame: a header that
\* announces Len(p) bytes, and p; the bytes lie on the wire after those of
\* the calls before, in one piece
OneFrameOneWrite(i) ==
    LET e == wlog[i]
    IN  /\ Len(e.chunks) = 1
        /\ Len(e.chunks[1]) = stdWriterPrefixLen + Len(e.p)
        /\ Uint32(SubSeq(e.chunks[1], 5, 8)) = Len(e.p)
        /\ SubSeq(e.chunks[1], 9, Len(e.chunks[1])) = e.p
        /\ SubSeq(wire, WrittenBefore(i) + 1,
                  WrittenBefore(i) + Len(e.chunks[1])) = e.chunks[1]

\* C29: every call of stdWriter.Write makes exactly one write of exactly
\* one frame on the sink, whatever its argument (a nil payload and an empty
\* one included); the frames of successive calls are neither merged nor
\* split.  (Stated after each Write, for all the calls made so far.)
C29_EveryWriteOneFrame ==
    last.op = "Write" =>
        \A i \in 1..Len(wlog) : wlog[i].instantiated => OneFrameOneWrite(i)

\* C29 as amended: the same for every call with a non-nil argument (an
\* empty one included); a call with a nil argument writes nothing.
C29_EveryNonNilWriteOneFrame ==
    last.op = "Write" =>
        /\ \A i \in 1..Len(wlog) :
              IF wlog[i].instantiated /\ wlog[i].p # NilPayload
              THEN OneFrameOneWrite(i)
              ELSE wlog[i].chunks = <<>>
        /\ Len(wire) = WrittenBefore(Len(wlog) + 1)

\* an empty payload, then a payload of one byte: a frame of 8 bytes, then
\* a frame of 9
C29_Witness ==
    /\ last.op = "Write"
    /\ Len(wlog) = 2
    /\ wlog[1].instantiated /\ wlog[1].p = <<>>
    /\ wlog[2].instantiated /\ Len(wlog[2].p) = 1
    /\ Len(wlog[1].chunks) = 1 /\ Len(wlog[2].chunks) = 1
    /\ Len(wire) = 17
    /\ wire = wlog[1].chunks[1] \o wlog[2].chunks[1]

\* Copy over the same bytes and destinations as the last Copy, the source
\* giving `chunk` bytes per read
CopyWithReads(chunk, eofWithData) ==
    CopyResult(last.dst, [bytes |-> SubSeq(wire, 1, last.cut), chunk |-> chunk,
                          eofWithData |-> eofWithData, errAt |-> last.errAt])

\* C30: Copy dispatches the complete frames in the order of the input, and
\* the sequence of dispatches is the same for every way the source splits
\* the bytes into reads: whatever the reads of the last Copy were (one byte
\* each, three bytes each, all at once; end of input with or after the
\* last bytes), it dispatched what a Copy that gets everything in one read
\* dispatches, and returned the same.
C30_SameDispatchesForEveryRead ==
    last.op = "Copy" =>
        /\ \E k \in 0..Len(Frames) :
              last.dispatched = Dispatches(last.dst, k)
        /\ LET whole == CopyWithReads(last.cut + 1, FALSE)
           IN  /\ whole.dispatched = last.dispatched
               /\ whole.ret = [written |-> last.written, err |-> last.err]

\* a frame larger than the starting buffer, then a frame for another sink,
\* read one byte at a time
C30_Witness ==
    /\ last.op = "Copy"
    /\ last.chunk = 1
    /\ last.cut = Len(wire)
    /\ Len(Frames) = 2
    /\ Len(Frames[1].p) > startingBufLen
    /\ Frames[1].prefix = Stdout
    /\ Frames[2].prefix = Stderr
    /\ last.dispatched = <<[sink |-> "dstout", payload |-> Frames[1].p],
                           [sink |-> "dsterr", payload |-> Frames[2].p]>>

\* frame i names a stream type Copy knows
KnownType(i) == Frames[i].prefix \in {Stdin, Stdout, Stderr, Data}

\* the destination of frame i does not take the whole payload: it reports an
\* error, or it accepts fewer bytes than the payload has
SinkFails(dst, i) ==
    LET kind == dst[SinkOfType(Frames[i].prefix)]
    IN  kind = "failing" \/ (kind = "short" /\ Frames[i].p # <<>>)

\* the complete frames of the last Copy whose destination does not take them,
\* all frames up to them being of a known type
FailingFrames ==
    {i \in 1..CompleteFrames(last.cut) :
        /\ \A j \in 1..i : KnownType(j)
        /\ SinkFails(last.dst, i)}

FirstFailing == CHOOSE i \in FailingFrames : \A j \in FailingFrames : i <= j

\* C31: when the destination of a frame accepts fewer bytes than the payload
\* without reporting an error, Copy stops and returns a short-write error;
\* when the destination reports an error, Copy stops and returns that
\* error.  In both cases the write of that frame is the last one Copy makes:
\* no later frame is dispatched, and the frames before it were delivered.
C31_SinkFailureStopsCopy ==
    (/\ last.op = "Copy"
     /\ last.errAt = NoReadError
     /\ FailingFrames # {})
    =>  LET i == FirstFailing
            s == SinkOfType(Frames[i].prefix)
        IN  /\ last.err = IF last.dst[s] = "failing" THEN "sink error"
                          ELSE "short write"
            /\ last.dispatched = Dispatches(last.dst, i)
            /\ \A t \in DOMAIN last.sinks :
                  (t # s /\ last.dst[t] # "nil") =>
                      last.sinks[t] = Delivered(t, i - 1)

\* the destination of the first of two frames accepted all but one byte: the
\* second frame, for a destination that takes everything, was not dispatched
C31_Witness ==
    /\ last.op = "Copy"
    /\ last.cut = Len(wire)
    /\ last.errAt = NoReadError
    /\ Len(Frames) = 2
    /\ Frames[1].prefix = Stderr
    /\ Frames[2].prefix = Stdout
    /\ last.dst.dsterr = "short"
    /\ last.dst.dstout = "writer"
    /\ last.err = "short write"
    /\ last.dispatched = <<[sink |-> "dsterr", payload |-> Frames[1].p]>>
    /\ Len(last.sinks.dsterr) = Len(Frames[1].p) - 1
    /\ last.sinks.dstout = <<>>

LineOwner(line) == SubSeq(line, 1, Len(line) - 1)

\* the lines of a rules file that belong to another identity than uuid
LinesOfOthers(content, uuid) ==
    SelectSeq(ReadLines(content), LAMBDA l : LineOwner(l) # uuid)

\* C32: a create or delete for a uuid removes from the rules file only the
\* lines that belong to that uuid: the lines of every other identity, also
\* of one whose uuid has this uuid as a prefix, are in the file after the
\* update as they were before it, in the same order (no operation having
\* stopped before its end).
C32_OnlyOwnLinesRemoved ==
    LET pr == cg.procs[1]
    IN  (cg.aborts = 0 /\ pr.swaps[CGRULES].moved) =>
            LinesOfOthers(Content(cg, CGRULES), pr.uuid)
                = LinesOfOthers(pr.swaps[CGRULES].pre, pr.uuid)

\* the same for the identities whose uuid does not start with this uuid
C32_UnrelatedLinesKept ==
    LET pr == cg.procs[1]
        unrelated(content) ==
            SelectSeq(ReadLines(content), LAMBDA l : ~StartsWith(l, pr.uuid))
    IN  (cg.aborts = 0 /\ pr.swaps[CGRULES].moved) =>
            unrelated(Content(cg, CGRULES)) = unrelated(pr.swaps[CGRULES].pre)

\* the identities whose last call in the series was a create
CgCreated ==
    {u \in Uuids :
        \E i \in 1..Len(CgCalls) :
            /\ CgCalls[i] = [op |-> "create", uuid |-> u]
            /\ \A j \in (i + 1)..Len(CgCalls) : CgCalls[j].uuid # u}

\* the last call for an identity
LastCallOf(u) ==
    CHOOSE i \in 1..Len(CgCalls) :
        /\ CgCalls[i].uuid = u
        /\ \A j \in (i + 1)..Len(CgCalls) : CgCalls[j].uuid # u

\* of the identities that have an entry coming to them, the one created last
CgNewest ==
    CHOOSE u \in CgCreated : \A v \in CgCreated : LastCallOf(v) <= LastCallOf(u)

RulesEntries(content, u) ==
    Cardinality({i \in 1..Len(ReadLines(content)) :
                    ReadLines(content)[i] = RulesRow(u)})
ConfigEntries(content, u) ==
    Cardinality({i \in 1..Len(ReadLines(content)) :
                    StartsWith(ReadLines(content)[i], ConfigPrefix(u))})

LastLine(content) == ReadLines(content)[Len(ReadLines(content))]

\* the config file after a series of calls: one entry for each identity
\* whose last call was a create, none for the others, the newest at the end
ConfigFollowsLastCall ==
    /\ \A u \in Uuids :
          ConfigEntries(Content(cg, CGCONFIG), u)
              = IF u \in CgCreated THEN 1 ELSE 0
    /\ CgCreated # {} => LastLine(Content(cg, CGCONFIG)) = ConfigRow(CgNewest)

\* the same for the rules file
RulesFollowLastCall ==
    /\ \A u \in Uuids :
          RulesEntries(Content(cg, CGRULES), u)
              = IF u \in CgCreated THEN 1 ELSE 0
    /\ CgCreated # {} => LastLine(Content(cg, CGRULES)) = RulesRow(CgNewest)

\* C33: after any series of create and delete calls that run one after the
\* other, over any uuids, the rules file and the config file each hold at
\* most one entry per uuid, the entry of a uuid is there exactly when the
\* last call for that uuid was a create, and the entry of the uuid created
\* most recently is the last line.
C33_EntriesFollowLastCall ==
    last.op = "Cgroup" => (RulesFollowLastCall /\ ConfigFollowsLastCall)

\* what holds of the series: the config file follows the last calls
C33_ConfigEntriesFollowLastCall ==
    last.op = "Cgroup" => ConfigFollowsLastCall

\* the steps of Cgroup.create, lines 209-213
CreateSteps == <<"cgcreate", CGCONFIG, CGRULES, "store", "cgclassify">>

\* the step a running create is about to take, after k steps
CreatePcAfter(k) ==
    IF k = 0 THEN {"cgcreate"}
    ELSE IF k \in {1, 2} THEN {"open", "write", "move"}
    ELSE IF k = 3 THEN {"store"}
    ELSE IF k = 4 THEN {"cgclassify"}
    ELSE {"done"}

\* C34: Cgroup.create runs its steps one after the other: the directories of
\* the subsystems first, then the config file, then the rules file, then the
\* parameters are stored, and the tasks are classified last.  A step that
\* fails ends the call: no later step runs, and what the earlier steps did
\* stays (the directories, the entry in the config file, the entry in the
\* rules file).
C34_CreateStepsInSequence ==
    LET pr == cg.procs[1]
    IN  pr.op = "create" =>
            /\ \E k \in 0..Len(CreateSteps) :
                  /\ pr.steps = SubSeq(CreateSteps, 1, k)
                  /\ pr.pc \in CreatePcAfter(k) \cup {"done"}
                  /\ (pr.pc = "done" /\ pr.err = "") => k = Len(CreateSteps)
                  /\ (pr.pc = "done" /\ pr.err # "") => k < Len(CreateSteps)
                  /\ (k >= 1 /\ pr.file = CGCONFIG) => pr.pc \in {"open", "write", "move", "done"}
            /\ Len(pr.steps) >= 1 => GroupDirs(pr.uuid) \subseteq cg.dirs
            /\ Len(pr.steps) >= 2 => HasConfigRow(Content(cg, CGCONFIG), pr.uuid)
            /\ Len(pr.steps) >= 3 => HasRulesRow(Content(cg, CGRULES), pr.uuid)

\* a create failed when it stored the parameters: the tasks were not
\* classified, and the directories and both entries are there
C34_Witness ==
    LET pr == cg.procs[1]
    IN  /\ pr.op = "create"
        /\ pr.pc = "done"
        /\ pr.err = "stopped"
        /\ pr.steps = <<"cgcreate", CGCONFIG, CGRULES>>
        /\ GroupDirs(pr.uuid) \subseteq cg.dirs
        /\ HasConfigRow(Content(cg, CGCONFIG), pr.uuid)
        /\ HasRulesRow(Content(cg, CGRULES), pr.uuid)
        /\ ~HasRulesRow(pr.pre.rules, pr.uuid)

\* C36: the output goroutine never blocks when it reports its result: while
\* it runs, its one send on receiveStdout can complete, in every
\* interleaving and also after pumpStreams returned on cancellation; once it
\* is done its result is in the channel or was received.  The stdin
\* goroutine half-closes the connection whenever it finishes, also when
\* stdin is nil (and then writes nothing to the connection).
C36_ReportNeverBlocks ==
    /\ ex.outTask = "running" => SendReady(ex.receiveStdout, Waiting)
    /\ ex.outTask = "done" => Len(ex.receiveStdout) + Len(ex.received) = 1
    /\ Len(ex.receiveStdout) <= ReceiveStdoutCap
    /\ ex.stdinTask = "done" => (ex.stdinDone /\ "CloseWrite" \in ex.conn)
    /\ ex.stdinDone => ex.stdinTask = "done"
    /\ ~ex.stdin => "Conn.Write" \notin ex.conn

\* pumpStreams returned on cancellation while the output was still drained;
\* the goroutine then sent its result, which nobody receives; stdin was nil
\* and the connection was half-closed
C36_Witness ==
    /\ ex.caller = "pumpStreams"
    /\ ex.pc = "returned"
    /\ ex.pump.via = "ctx.Done"
    /\ ~ex.pump.outDone
    /\ ex.outTask = "done"
    /\ Len(ex.receiveStdout) = 1
    /\ ex.received = <<>>
    /\ ~ex.stdin
    /\ ex.stdinTask = "done"
    /\ "CloseWrite" \in ex.conn

\* C37: with a context that is not cancelled and at least one sink,
\* pumpStreams returns once the output drain has finished, whether the stdin
\* copy finishes or not; without a sink it returns as soon as the stdin
\* goroutine has finished: it takes the stdinDone case and does not wait a
\* second time.
C37_ReturnsOnceDrained ==
    /\ (Waiting /\ ~ex.cancelled /\ HasSinks(ex) /\ ex.outTask = "done")
           ~> ex.pump.returned
    /\ (Waiting /\ ~ex.cancelled /\ ~HasSinks(ex) /\ ex.stdinDone)
           ~> (ex.pump.returned
               /\ (ex.pump.via = "stdinDone" \/ ex.pump.cancelled))
    /\ [](~HasSinks(ex) => ex.pc # "select2")

\* a run of Exec with a sink returned from pumpStreams with the result of
\* the output drain while the stdin copy had not finished
C37_Witness ==
    /\ ex.caller = "Exec"
    /\ HasSinks(ex)
    /\ ex.stdin
    /\ ex.pump.returned
    /\ ex.pump.via = "receiveStdout"
    /\ ex.stdinTask = "running"
    /\ ~ex.pump.stdinDone
    /\ ~ex.cancelled

\* the requests of a kind among the calls of the last Bitbucket operation
BbRequests(req) == {i \in 1..Len(last.calls) : last.calls[i].req = req}

\* the answer to the last create request of the last CreateRepo
LastCreate ==
    last.calls[CHOOSE i \in BbRequests("create") :
                  \A j \in BbRequests("create") : j <= i].resp

\* C38: CreateRepo ends after at most two create requests and at most one
\* purge.  With purge=true a conflict on the first attempt is followed by one
\* purge and, if the purge worked, by one retry; a conflict on the retry, a
\* purge that failed, or a conflict with purge=false give a RepoExist error,
\* a not-found answer to a create request gives NamespaceNotFound; the
\* deploy hook is enabled only after a create request succeeded.
C38_CreateRepoTerminates ==
    last.op = "CreateRepo" =>
        LET calls   == last.calls
            creates == BbRequests("create")
            purges  == BbRequests("purge")
            first   == calls[1].resp
        IN  /\ Cardinality(creates) \in {1, 2}
            /\ Cardinality(purges) <= 1
            /\ calls[1].req = "create"
            /\ (last.purge /\ first.StatusCode = StatusConflict)
                  =>  /\ calls[2].req = "purge"
                      /\ IF PurgeRepo(calls[2].resp) = "nil"
                         THEN calls[3].req = "create" /\ Cardinality(creates) = 2
                         ELSE Len(calls) = 2 /\ last.err = "RepoExist"
            /\ ~(last.purge /\ first.StatusCode = StatusConflict)
                  => (purges = {} /\ Cardinality(creates) = 1)
            /\ (~last.purge /\ first.StatusCode = StatusConflict)
                  => (Len(calls) = 1 /\ last.err = "RepoExist")
            /\ (Cardinality(creates) = 2 /\ LastCreate.StatusCode = StatusConflict)
                  => (Len(calls) = 3 /\ last.err = "RepoExist")
            /\ LastCreate.StatusCode = StatusNotFound
                  => (last.err = "NamespaceNotFound" /\ BbRequests("hook") = {})
            /\ \A i \in BbRequests("hook") :
                  /\ i = Len(calls)
                  /\ calls[i - 1].req = "create"
                  /\ ~calls[i - 1].resp.err
            /\ ~LastCreate.err => BbRequests("hook") # {}
            /\ last.err = "nil" => BbRequests("hook") # {}

\* a conflict, a purge that worked and a conflict again: RepoExist after two
\* create requests and one purge, the hook not enabled
C38_Witness ==
    /\ last.op = "CreateRepo"
    /\ last.purge
    /\ Len(last.calls) = 3
    /\ last.calls[1] = BbCall("create", 0, 0, RespFailed(StatusConflict))
    /\ last.calls[2] = BbCall("purge", 0, 0, RespOk(202))
    /\ last.calls[3] = BbCall("create", 0, 0, RespFailed(StatusConflict))
    /\ last.err = "RepoExist"

\* the requests of the last RemoveNamespace before the project delete
BeforeProjectDelete ==
    {i \in 1..Len(last.calls) : last.calls[i].req # "deleteProject"}

\* the request failed, for the client: a purge answered with not-found did
\* not (line 124)
CallFailed(c) ==
    IF c.req = "purge" THEN PurgeRepo(c.resp) # "nil" ELSE c.resp.err

\* the repositories for which a purge request was made and did not fail
PurgedRepos ==
    {last.calls[i].repo : i \in {j \in BbRequests("purge") :
                                    ~CallFailed(last.calls[j])}}

\* C39: when no request fails, RemoveNamespace has purged every repository
\* of the namespace, over any number of pages, before it issues the project
\* delete; when a page request or a purge fails it returns that error and
\* does not delete the project.
C39_AllPurgedBeforeProjectDelete ==
    last.op = "RemoveNamespace" =>
        /\ (\A i \in BeforeProjectDelete : ~CallFailed(last.calls[i]))
              =>  /\ BbRequests("deleteProject") = {Len(last.calls)}
                  /\ PurgedRepos = Range(last.repos0)
        /\ (\E i \in BeforeProjectDelete : CallFailed(last.calls[i]))
              =>  /\ BbRequests("deleteProject") = {}
                  /\ last.err # "nil"

\* what holds of RemoveNamespace: the repositories of the pages it got were
\* purged, in the order of the pages, before the project delete, and all of
\* them if the server pages the list as it was when the call started or the
\* list fits in one page; a page request or a purge that fails is the last
\* request, and its error is returned
C39_ListedPurgedBeforeProjectDelete ==
    last.op = "RemoveNamespace" =>
        /\ (\A i \in BeforeProjectDelete : ~CallFailed(last.calls[i]))
              =>  /\ BbRequests("deleteProject") = {Len(last.calls)}
                  /\ (~last.live \/ Len(last.repos0) <= PageLimit)
                        => PurgedRepos = Range(last.repos0)
                  /\ last.repos = SelectSeq(last.repos0,
                                            LAMBDA x : x \notin PurgedRepos)
        /\ \A i \in BeforeProjectDelete :
              CallFailed(last.calls[i])
                  =>  /\ i = Len(last.calls)
                      /\ last.err # "nil"
                      /\ last.err = IF last.calls[i].req = "page"
                                    THEN CheckNamespaceError(last.calls[i].resp)
                                    ELSE PurgeRepo(last.calls[i].resp)

\* the calls of a function among the calls of the last scale request
ScaleCallsOf(fn) == {i \in 1..Len(last.calls) : last.calls[i].fn = fn}

\* the form value is a decimal integer, with or without a sign
IsInteger(s) ==
    /\ s # <<>>
    /\ LET body == IF s[1] \in {"+", "-"} THEN Tail(s) ELSE s
       IN  /\ body # <<>>
           /\ \A i \in 1..Len(body) : body[i] \in {"0", "1", "2"}

\* the integer a string of digits with an optional sign stands for
IntegerOf(s) ==
    LET body  == IF s[1] \in {"+", "-"} THEN Tail(s) ELSE s
        digit == [c \in {"0", "1", "2"} |->
                     IF c = "0" THEN 0 ELSE IF c = "1" THEN 1 ELSE 2]
        pow10 == [k \in 0..MaxScaleLen |->
                     IF k = 0 THEN 1 ELSE IF k = 1 THEN 10
                     ELSE IF k = 2 THEN 100 ELSE IF k = 3 THEN 1000 ELSE 10000]
        Sum[k \in 0..Len(body)] ==
            IF k = 0 THEN 0
            ELSE Sum[k - 1] + digit[body[k]] * pow10[Len(body) - k]
    IN  IF s[1] = "-" THEN 0 - Sum[Len(body)] ELSE Sum[Len(body)]

\* C40: the scale handler passes to ScaleApplication the value given, or for
\* a value with the prefix '+' or '-' the number of replicas that
\* FindApplications found in the same request plus or minus the number that
\* follows the prefix; a value that is not an integer is answered with 400
\* and ScaleApplication is not called; StartContainers is called only with
\* the containers ScaleApplication returned, and only when it succeeded.
C40_ScaleArgument ==
    last.op = "scale" =>
        LET s        == last.scaling
            relative == s # <<>> /\ s[1] \in {"+", "-"}
            number   == IF relative THEN Tail(s) ELSE s
            scales   == ScaleCallsOf("ScaleApplication")
            starts   == ScaleCallsOf("StartContainers")
        IN  /\ ~IsInteger(number)
                  =>  /\ last.response.status = StatusBadRequest
                      /\ last.calls = <<>>
            /\ (IsInteger(number) /\ ~relative)
                  =>  /\ Len(last.calls) >= 1
                      /\ last.calls[1] = ScaleCall("ScaleApplication",
                                                   IntegerOf(number), {})
                      /\ ScaleCallsOf("FindApplications") = {}
            /\ (IsInteger(number) /\ relative)
                  =>  /\ last.calls[1].fn = "FindApplications"
                      /\ IF last.found.err
                         THEN Len(last.calls) = 1 /\ last.ret # "nil"
                         ELSE last.calls[2] =
                                ScaleCall("ScaleApplication",
                                          IF s[1] = "+"
                                          THEN last.found.count + IntegerOf(number)
                                          ELSE last.found.count - IntegerOf(number),
                                          {})
            /\ Cardinality(scales) <= 1
            /\ \A i \in starts :
                  /\ i = Len(last.calls)
                  /\ last.calls[i - 1].fn = "ScaleApplication"
                  /\ ~last.scaled.err
                  /\ last.calls[i].cs = last.scaled.cs
            /\ (scales # {} /\ last.scaled.err)
                  => (starts = {} /\ last.ret = "ScaleApplication")
            /\ (scales # {} /\ ~last.scaled.err) => Cardinality(starts) = 1

\* the value "-1" with two replicas found: ScaleApplication is called with
\* 1, and StartContainers with the container it returned
C40_Witness ==
    /\ last.op = "scale"
    /\ last.scaling = <<"-", "1">>
    /\ last.found = [err |-> FALSE, count |-> 2]
    /\ last.scaled = [err |-> FALSE, cs |-> {"c1"}]
    /\ last.calls = <<ScaleCall("FindApplications", 0, {}),
                      ScaleCall("ScaleApplication", 1, {}),
                      ScaleCall("StartContainers", 0, {"c1"})>>

====
